---- MODULE Spec2Model ----
(***************************************************************************)
(* Model of the DeerFlow event-logging subsystem:                          *)
(*   src/src/logging/handlers.py            DateRotatingFileHandler        *)
(*   src/src/logging/config.py              LoggingConfig, setup_logging   *)
(*   src/src/logging/formatters.py          line shape of the encoders     *)
(*   src/src/logging/interaction_logger.py  InteractionLogger.log_*        *)
(* The standard-library behaviour the code inherits (Logger.handle,        *)
(* Logger.log, Logger.callHandlers, Handler.handle with its per-handler    *)
(* lock, FileHandler.emit opening a closed stream) is part of the model.   *)
(***************************************************************************)
EXTENDS Integers, Sequences, FiniteSets, TLC

VARIABLES
    today,      \* wall-clock calendar day, datetime.now().date()
    clock,      \* logical instant; stamps modification times and inodes
    files,      \* [Dirs -> [set of days -> [ino, mtime, lines]]]: the dated files
    hnd,        \* sequence of handler objects ever constructed
    lock,       \* lock[h]: thread holding handler h's lock, 0 when free
    loggers,    \* [LoggerNames -> [handlers, propagate, level]]
    thr,        \* per-thread position inside a logging call
    events,     \* records built so far; an event's identity is its index
    console,    \* events written to stderr (console handler, lastResort)
    cfglog,     \* configurations of the setup_logging calls so far, in order
    deleted,    \* history: <<dir, day>> of every file unlinked by cleanup
    rotated,    \* history: per handler, the days it rotated to, in order
    opened,     \* history: per handler, the days whose file it opened, in order
    cleaned,    \* history: per handler, the days on which it ran cleanup
    written,    \* history: per event, the writes made for it
    bound,      \* bound[t]: session_id of the InteractionLogger thread t uses
    faults,     \* history: the failures that occurred and the raises they caused
    _global_logger, \* the module's logger: index into instances, 0 for None
    instances,  \* session_id of every logger get_interaction_logger built
    getting,    \* per-thread position inside get_interaction_logger
    got,        \* history: the get_interaction_logger calls that returned
    run,        \* per-thread workflow run: its session id and its progress
    scope,      \* per-thread timing scope: its name, start and progress
    assigned,   \* history: the dates callers stored in a sink's current_date
    wrap        \* per-thread call of a decorated function and its progress

\* the state of the code that calls the logging operations
caller == <<_global_logger, instances, getting, got, run, scope, assigned,
           wrap>>

vars == <<today, clock, files, hnd, lock, loggers, thr, events, console,
          cfglog, deleted, rotated, opened, cleaned, written, bound, faults,
          caller>>

----------------------------------------------------------------------------
\* Bounds of the model.

MaxPre        == 2   \* dated files already in the directory at process start
MaxRetention  == 2   \* largest max_log_files value tried
SinkMaxDay    == 6   \* last calendar day of the single-sink scenario
SinkMaxEvents == 6   \* events of the single-sink scenario
NumThreads    == 2   \* threads of the concurrent scenario
PerThread     == 1   \* records each thread logs in the concurrent scenario
ThrMaxEvents  == 2   \* records logged in all in the concurrent scenario
ThrMaxDay     == 2   \* last calendar day of the concurrent scenario
MaxSetups     == 2   \* setup_logging calls of the re-configuration scenario
CfgMaxEvents  == 3   \* events of the re-configuration scenario
OpsMaxEvents  == 2   \* events of the operations scenario
OpsMaxDay     == 2   \* last calendar day of the operations scenario
FaultMaxEvents == 2  \* events of the failure scenario
FaultMaxDay   == 3   \* last calendar day of the failure scenario
SessMaxEvents == 3   \* events of the session scenario
SessPerThread == 2   \* records each thread logs in the session scenario
RunMaxEvents  == 2   \* events of the runs scenario
RunMaxGets    == 3   \* get_interaction_logger calls of the runs scenario
RstMaxEvents  == 2   \* events of the restart scenario
RstMaxDay     == 3   \* last calendar day of the restart scenario
KeepMaxEvents == 2   \* events of the kept-file scenario
KeepMaxDay    == 2   \* last calendar day of the kept-file scenario
LiveMaxEvents == 2   \* records logged in all in the liveness scenario
LivePerThread == 1   \* records each thread logs in the liveness scenario
LiveMaxDay    == 2   \* last calendar day of the liveness scenario
FmtMaxEvents  == 2   \* events of the encoding scenario
DirMaxEvents  == 2   \* events of the direct-use scenario
DirMaxDay     == 2   \* last calendar day of the direct-use scenario
MaxTokens     == 1   \* largest token count passed to log_agent_activity
TimMaxEvents  == 3   \* events of the timing scenario
WrapMaxEvents == 3   \* events of the decorator scenario
WrapMaxCalls  == 2   \* calls of decorated functions in the decorator scenario
WrapMaxDay    == 2   \* last calendar day of the decorator scenario
TimMaxScopes  == 2   \* timing scopes entered in the timing scenario

----------------------------------------------------------------------------
\* Program constants.

DEBUG    == 10
INFO     == 20
WARNING  == 30
ERROR    == 40

\* json.dumps(..., indent=2) of a non-empty mapping: an opening-brace line,
\* the indented members, a closing-brace line.
IndentedParts == 3

EventChannels == {"interactions", "agents", "workflows", "tools",
                  "performance", "security"}
Channels      == EventChannels \cup {"system"}
LoggerNames   == EventChannels \cup {"root"}
LogDirs       == {"A", "B"}
Dirs          == LogDirs \X Channels
LevelChannels == {"interactions", "agents", "workflows", "tools", "system"}
Threads       == 1..NumThreads

\* the session identifiers callers bind their loggers to
Sessions == {1, 2}

\* session_id of the process-wide logger of get_interaction_logger(): a
\* generated identifier, shared by every caller that names no session
GlobalSession == 0

\* The directory in which files of earlier runs may already exist.
PreDir == <<"A", "interactions">>

EmptyDir == [d \in {} |-> 0]

----------------------------------------------------------------------------
\* Sequences and Python slicing.

Min(a, b) == IF a < b THEN a ELSE b
Max(a, b) == IF a < b THEN b ELSE a

\* seq[:stop] with Python's meaning of a negative stop
PySliceTo(s, stop) ==
    LET n == Len(s)
        k == IF stop < 0 THEN Max(0, n + stop) ELSE Min(stop, n)
    IN  SubSeq(s, 1, k)

Range(s) == {s[i] : i \in DOMAIN s}

StrictlyIncreasing(s) == \A i, j \in DOMAIN s : i < j => s[i] < s[j]

----------------------------------------------------------------------------
\* The dated files of one category directory.

NewFile(now) == [ino |-> now, mtime |-> now, lines |-> <<>>]

\* (mutation) open(path, "w"): an existing file is emptied
OpenAppend_truncate(fs, day, now) ==
    [d \in DOMAIN fs \cup {day} |->
        IF d # day THEN fs[d]
        ELSE IF day \in DOMAIN fs THEN [fs[day] EXCEPT !.mtime = now, !.lines = <<>>]
        ELSE NewFile(now)]

\* open(path, "a"): creates the file when absent, leaves an existing file as
\* it is (content and modification time).
OpenAppend(fs, day, now) ==
    IF day \in DOMAIN fs THEN fs
    ELSE [d \in DOMAIN fs \cup {day} |-> IF d = day THEN NewFile(now) ELSE fs[d]]

RECURSIVE SortByMtime(_, _)
\* log_files.sort(key=lambda x: x.stat().st_mtime): the days of S, oldest first
SortByMtime(fs, S) ==
    IF S = {} THEN <<>>
    ELSE LET d == CHOOSE x \in S : \A y \in S : fs[x].mtime <= fs[y].mtime
         IN  <<d>> \o SortByMtime(fs, S \ {d})

\* DateRotatingFileHandler._cleanup_old_files: the directory it leaves behind
files_to_remove(fs, max_files) ==
    IF Cardinality(DOMAIN fs) <= max_files THEN <<>>
    ELSE PySliceTo(SortByMtime(fs, DOMAIN fs), -max_files)

_cleanup_old_files(fs, max_files) ==
    LET gone == Range(files_to_remove(fs, max_files))
    IN  [d \in DOMAIN fs \ gone |-> fs[d]]

\* DateRotatingFileHandler.__init__ on its directory: open today's file,
\* then clean.
InitDir(fs, day, max_files, now) ==
    _cleanup_old_files(OpenAppend(fs, day, now), max_files)

\* the files of directory dir that cleanup unlinked
Unlinked(dir, before, after) ==
    {<<dir, day>> : day \in DOMAIN before \ DOMAIN after}

\* The lines one encoded record occupies in a file.
\* StructuredFormatter: json.dumps without indent, one line.
\* InteractionFormatter: json.dumps(indent=2), several lines.
FormatLines(fmt, ev) ==
    IF fmt = "InteractionFormatter"
    THEN [p \in 1..IndentedParts |-> [ev |-> ev, part |-> p, of |-> IndentedParts]]
    ELSE <<[ev |-> ev, part |-> 1, of |-> 1]>>

\* (mutation) the text stays in the stream's buffer: write without flush
WriteLines_unflushed(fs, day, ino, lns, now) == fs

\* stream.write(msg + terminator); flush() on a stream opened on inode ino of
\* the file named day: the text reaches the file only while that name still
\* refers to the inode (an unlinked file keeps receiving the text, unseen).
WriteLines(fs, day, ino, lns, now) ==
    IF day \in DOMAIN fs /\ fs[day].ino = ino
    THEN [fs EXCEPT ![day] = [ino |-> ino, mtime |-> now, lines |-> @.lines \o lns]]
    ELSE fs

\* flush() of a handler's stream: text an earlier failed flush left in the
\* stream's buffer goes out first
Flushed(fs, H, now) ==
    IF H.stream # 0 /\ H.buf # <<>>
    THEN WriteLines(fs, H.base, H.stream, H.buf, now)
    ELSE fs

----------------------------------------------------------------------------
\* Handler objects.

FileHandlerObj(dir, max_files, day, ino, fmt, level) ==
    [kind |-> "file", dir |-> dir, max_files |-> max_files,
     current_date |-> day, base |-> day, stream |-> ino,
     fmt |-> fmt, level |-> level, buf |-> <<>>]

\* logging.StreamHandler() on stderr; also logging.lastResort
ConsoleHandlerObj(level) ==
    [kind |-> "console", dir |-> <<"", "">>, max_files |-> 0,
     current_date |-> 0, base |-> 0, stream |-> 0,
     fmt |-> "Formatter", level |-> level, buf |-> <<>>]

LastResort == 1

----------------------------------------------------------------------------
\* Configuration (config.py).

LoggingConfig(log_dir, enabled, level, max_log_files) ==
    [log_dir |-> log_dir, enabled |-> enabled, level |-> level,
     max_log_files |-> max_log_files]

AllInfo == [c \in LevelChannels |-> INFO]

\* the order in which setup_logging configures the event channels
SetupOrder == <<"interactions", "agents", "workflows", "tools",
                "performance", "security">>

\* the formatter each _setup_*_logger attaches
FormatterOf(ch) ==
    IF ch = "interactions" THEN "InteractionFormatter" ELSE "StructuredFormatter"

\* the level each _setup_*_logger gives its logger
LoggerLevelOf(cfg, ch) ==
    IF ch \in {"performance", "security"} THEN INFO ELSE cfg.level[ch]

----------------------------------------------------------------------------
\* Initial state: a fresh process before setup_logging; the interactions
\* directory may hold up to MaxPre dated files left by earlier runs.

PreFiles(k) == [d \in (1 - k)..0 |-> [ino |-> d, mtime |-> d, lines |-> <<>>]]

IdleThread == [pc |-> "idle", ev |-> 0, q |-> <<>>, tday |-> 0, n |-> 0]

\* no get_interaction_logger call under way
NotGetting == [pc |-> "none", session_id |-> 0, ret |-> 0]

\* no workflow run, no timing scope
NoRun   == [session_id |-> 0, interaction_logger |-> 0, selected |-> 0,
            via |-> ""]
NoScope == [pc |-> "out", operation_name |-> "", start_time |-> 0,
            n0 |-> 0, raised |-> FALSE, left |-> <<>>]

\* no call of a decorated function
NoCall == [pc |-> "out", decorator |-> "", activity_type |-> "",
           start_time |-> 0, n0 |-> 0, func |-> "", pending |-> "",
           left |-> <<>>]

\* a fresh process that finds one of the directory contents FS
InitFrom(FS) ==
    /\ today = 1
    /\ clock = 1
    /\ files \in FS
    /\ hnd = <<ConsoleHandlerObj(WARNING)>>
    /\ lock = <<0>>
    /\ loggers = [n \in LoggerNames |->
                    [handlers |-> <<>>, propagate |-> TRUE,
                     level |-> IF n = "root" THEN WARNING ELSE 0]]
    /\ thr = [t \in Threads |-> IdleThread]
    /\ events = <<>>
    /\ console = <<>>
    /\ cfglog = <<>>
    /\ deleted = {}
    /\ rotated = <<<<>>>>
    /\ opened = <<<<>>>>
    /\ cleaned = <<<<>>>>
    /\ written = <<>>
    /\ bound = [t \in Threads |-> GlobalSession]
    /\ faults = {}
    /\ _global_logger = 0
    /\ instances = <<>>
    /\ getting = [t \in Threads |-> NotGetting]
    /\ got = <<>>
    /\ run = [t \in Threads |-> NoRun]
    /\ scope = [t \in Threads |-> NoScope]
    /\ assigned = {}
    /\ wrap = [t \in Threads |-> NoCall]

InitWith(K) ==
    InitFrom({[d \in Dirs |-> IF d = PreDir THEN PreFiles(k) ELSE EmptyDir] :
                 k \in K})

Init == InitWith(0..MaxPre)

\* the same with every directory empty
InitEmpty == InitWith({0})

\* the files an earlier run of the program left in a directory: one of
\* yesterday and, when it ran today as well, one of today, each holding a
\* record
EarlierRun(days) ==
    [d \in days |-> [ino |-> d - 2, mtime |-> d - 2,
                     lines |-> <<[ev |-> 0, part |-> 1, of |-> 1]>>]]

\* the files of yesterday and of today are in the directory with
\* modification times in either order (a file copied, restored or touched
\* keeps or gets a time unrelated to its name)
Touched(m0, m1) ==
    [d \in {0, 1} |-> [ino |-> d - 2, mtime |-> IF d = 0 THEN m0 ELSE m1,
                       lines |-> <<[ev |-> 0, part |-> 1, of |-> 1]>>]]

InitTouched ==
    InitFrom({[d \in Dirs |-> IF d = PreDir THEN Touched(m[1], m[2]) ELSE EmptyDir] :
                 m \in {<<0 - 2, 0 - 1>>, <<0 - 1, 0 - 2>>}})

\* a process started after earlier runs of the same or the previous day
InitRestart ==
    InitFrom({[d \in Dirs |-> IF d = PreDir THEN EarlierRun(days) ELSE EmptyDir] :
                 days \in {{}, {0}, {1}, {0, 1}}})

----------------------------------------------------------------------------
\* setup_logging(config), called by the driver while no logging call is
\* under way.

\* (mutation) the enable flag is not consulted
IsSetUp_always(cfg, ch) == TRUE

\* _setup_*_logger: nothing happens for a channel the configuration disables
IsSetUp(cfg, ch) == ch \in cfg.enabled

\* "Remove existing handlers to avoid duplication" is done for the root
\* logger only; _setup_*_logger adds to whatever the logger already has.
ChannelHandlersAfterSetup(old, h) == Append(old, h)

setup_logging(cfg, maxSetups) ==
    LET chans   == SelectSeq(SetupOrder, LAMBDA c : IsSetUp(cfg, c))
        base    == Len(hnd)
        sysId   == base + 1
        conId   == base + 2
        IdOf(c) == base + 2 + (CHOOSE i \in DOMAIN chans : chans[i] = c)
        built   == {"system"} \cup Range(chans)
        DirOf(c) == <<cfg.log_dir, c>>
        Obj(c)  == FileHandlerObj(DirOf(c), cfg.max_log_files, today,
                      OpenAppend(files[DirOf(c)], today, clock)[today].ino,
                      IF c = "system" THEN "StructuredFormatter" ELSE FormatterOf(c),
                      IF c = "system" THEN cfg.level["system"] ELSE 0)
        newH    == <<Obj("system"), ConsoleHandlerObj(WARNING)>>
                     \o [i \in DOMAIN chans |-> Obj(chans[i])]
        newF    == [d \in Dirs |->
                      IF d[1] = cfg.log_dir /\ d[2] \in built
                      THEN InitDir(files[d], today, cfg.max_log_files, clock)
                      ELSE files[d]]
        hist    == [i \in DOMAIN newH |-> IF newH[i].kind = "file" THEN <<today>> ELSE <<>>]
    IN
    /\ Len(cfglog) < maxSetups
    /\ \A t \in Threads : thr[t].pc = "idle"
    /\ files' = newF
    /\ deleted' = deleted \cup UNION
          {Unlinked(d, OpenAppend(files[d], today, clock), newF[d]) :
               d \in {x \in Dirs : x[1] = cfg.log_dir /\ x[2] \in built}}
    /\ hnd' = hnd \o newH
    /\ lock' = lock \o [i \in DOMAIN newH |-> 0]
    /\ rotated' = rotated \o [i \in DOMAIN newH |-> <<>>]
    /\ opened' = opened \o hist
    /\ cleaned' = cleaned \o hist
    /\ loggers' = [n \in LoggerNames |->
          IF n = "root"
          THEN [handlers |-> <<sysId, conId>>, propagate |-> TRUE,
                level |-> cfg.level["system"]]
          ELSE IF n \in Range(chans)
          THEN [handlers |-> ChannelHandlersAfterSetup(loggers[n].handlers, IdOf(n)),
                propagate |-> FALSE,
                level |-> LoggerLevelOf(cfg, n)]
          ELSE loggers[n]]
    /\ clock' = clock + 1
    /\ cfglog' = Append(cfglog, cfg)
    /\ UNCHANGED <<today, thr, events, console, written, bound, faults, caller>>

----------------------------------------------------------------------------
\* Routing of a record (logging.Logger).

\* Logger.getEffectiveLevel: the logger's own level, else the root's
EffectiveLevel(name) ==
    IF loggers[name].level # 0 THEN loggers[name].level ELSE loggers["root"].level

\* Logger.callHandlers: the handlers of the logger, then (when the logger
\* propagates) those of the root; each takes the record when the record's
\* level reaches the handler's level; with no handler at all, lastResort.
CallHandlers(name, lvl) ==
    LET all == loggers[name].handlers \o
                 (IF loggers[name].propagate /\ name # "root"
                  THEN loggers["root"].handlers ELSE <<>>)
    IN  IF all = <<>>
        THEN (IF lvl >= hnd[LastResort].level THEN <<LastResort>> ELSE <<>>)
        ELSE SelectSeq(all, LAMBDA h : lvl >= hnd[h].level)

\* Python's None among the non-negative values the model uses
None == -1

\* the arguments of a logging operation that the properties speak about;
\* every other argument is left out
NoArgs == [tag |-> "", prompt_tokens |-> None, completion_tokens |-> None,
           total_tokens |-> None, value |-> None,
           agent_name |-> None, duration_ms |-> None, extra |-> <<>>]

\* The six operations of InteractionLogger build a record, stamped with the
\* logger's session_id, and hand it to the channel's logger, either with
\* Logger.handle (no level check by the logger) or with Logger.log /
\* Logger.info (isEnabledFor first).
LogCall(t, op, args, lvl, viaHandle, retId, maxEv, per) ==
    LET ev == Len(events) + 1
        q  == IF viaHandle \/ lvl >= EffectiveLevel(op)
              THEN CallHandlers(op, lvl) ELSE <<>>
    IN
    /\ thr[t].pc = "idle"
    /\ Len(events) < maxEv
    /\ thr[t].n < per
    /\ events' = Append(events, [op |-> op, level |-> lvl, day |-> today,
                                 ts |-> clock, by |-> t,
                                 epoch |-> Len(cfglog),
                                 ret |-> IF retId THEN ev ELSE 0,
                                 session_id |-> bound[t], args |-> args])
    /\ written' = Append(written, <<>>)
    /\ thr' = [thr EXCEPT ![t] = [pc |-> IF q = <<>> THEN "idle" ELSE "handle",
                                  ev |-> ev, q |-> q, tday |-> 0,
                                  n |-> @.n + 1]]
    /\ UNCHANGED <<today, clock, files, hnd, lock, loggers, console, cfglog,
                   deleted, rotated, opened, cleaned, bound, faults,
                   caller>>

\* log_interaction(event_type, agent_name=..., duration_ms=...)
log_interaction_with(t, agent_name, duration_ms, maxEv, per) ==
    LogCall(t, "interactions",
            [NoArgs EXCEPT !.agent_name = agent_name, !.duration_ms = duration_ms],
            INFO, TRUE, TRUE, maxEv, per)

\* agent_name and duration_ms default to None
log_interaction(t, maxEv, per) ==
    log_interaction_with(t, None, None, maxEv, per)

\* logging.getLogger(name).info(msg, extra=extra) by any code of the process
\* whose logger has no handler of its own: the record reaches the root
\* logger's handlers, the system file among them
logger_info(t, extra, maxEv, per) ==
    LogCall(t, "root", [NoArgs EXCEPT !.extra = extra], INFO, FALSE, FALSE,
            maxEv, per)

\* total_tokens=(prompt_tokens or 0) + (completion_tokens or 0)
\*              if prompt_tokens and completion_tokens else None
\* where None and 0 are both false
total_tokens(prompt_tokens, completion_tokens) ==
    LET Truthy(x) == x # None /\ x # 0
        OrZero(x) == IF Truthy(x) THEN x ELSE 0
    IN  IF Truthy(prompt_tokens) /\ Truthy(completion_tokens)
        THEN OrZero(prompt_tokens) + OrZero(completion_tokens)
        ELSE None

log_agent_activity_tokens(t, prompt_tokens, completion_tokens, maxEv, per) ==
    LogCall(t, "agents",
            [NoArgs EXCEPT !.prompt_tokens = prompt_tokens,
                           !.completion_tokens = completion_tokens,
                           !.total_tokens =
                               total_tokens(prompt_tokens, completion_tokens)],
            INFO, TRUE, TRUE, maxEv, per)

\* prompt_tokens and completion_tokens default to None
log_agent_activity(t, maxEv, per) ==
    log_agent_activity_tokens(t, None, None, maxEv, per)

\* (mutation) every workflow record at INFO
WorkflowLevel_flat(status) == INFO

\* level = logging.ERROR if status == "error" else logging.INFO
WorkflowLevel(status) == IF status = "error" THEN ERROR ELSE INFO

\* level=logging.ERROR if not success else logging.INFO
ToolLevel(success) == IF ~success THEN ERROR ELSE INFO

log_workflow_event(t, status, maxEv, per) ==
    LogCall(t, "workflows", [NoArgs EXCEPT !.tag = status],
            WorkflowLevel(status), FALSE, TRUE, maxEv, per)

log_tool_usage(t, success, maxEv, per) ==
    LogCall(t, "tools",
            [NoArgs EXCEPT !.tag = IF success THEN "success" ELSE "failure"],
            ToolLevel(success), TRUE, TRUE, maxEv, per)

\* log_performance_metric(metric_name, value): performance_logger.info
log_metric(t, metric_name, value, maxEv, per) ==
    LogCall(t, "performance",
            [NoArgs EXCEPT !.tag = metric_name, !.value = value],
            INFO, FALSE, FALSE, maxEv, per)

log_performance_metric(t, maxEv, per) ==
    log_metric(t, "", None, maxEv, per)

\* getattr(logging, severity.upper(), logging.INFO)
SeverityLevel(severity) ==
    CASE severity = "DEBUG"   -> DEBUG
      [] severity = "WARNING" -> WARNING
      [] severity = "ERROR"   -> ERROR
      [] OTHER                -> INFO

log_security_event(t, severity, maxEv, per) ==
    LogCall(t, "security", NoArgs, SeverityLevel(severity), FALSE, FALSE,
            maxEv, per)

----------------------------------------------------------------------------
\* The encoders (formatters.py).  An encoder's output is the mapping that
\* json.dumps writes; a value is a pair <<kind, number>>.

PyNone == <<"None", 0>>
Optional(kind, x) == IF x = None THEN PyNone ELSE <<kind, x>>

\* the keys StructuredFormatter.format does not copy from record.__dict__
ExcludedAttrs ==
    {"name", "levelname", "levelno", "pathname", "filename", "module",
     "exc_info", "exc_text", "stack_info", "lineno", "funcName", "created",
     "msecs", "relativeCreated", "thread", "threadName", "processName",
     "process", "getMessage", "msg", "args"}

\* the first assignment of StructuredFormatter.format: the fixed fields,
\* from the record's own attributes
StructuredFixed(E) ==
    [k \in {"timestamp", "level", "logger", "message", "module", "function",
            "line"} |->
        CASE k = "timestamp" -> <<"created", E.ts>>
          [] k = "level"     -> <<"levelname", E.level>>
          [] k = "logger"    -> <<E.op, 0>>
          [] k = "message"   -> <<"msg", 0>>
          [] k = "module"    -> <<"module", 0>>
          [] k = "function"  -> <<"funcName", 0>>
          [] OTHER           -> <<"lineno", 0>>]

\* StructuredFormatter.format: the fixed fields, then log_data[key] = value
\* for every key of record.__dict__ outside the excluded set; the keys
\* that extra= put into record.__dict__ are those of E.args.extra
StructuredFormatter_format(E) ==
    LET fixed  == StructuredFixed(E)
        custom == DOMAIN E.args.extra \ ExcludedAttrs
    IN  [k \in DOMAIN fixed \cup custom |->
            IF k \in custom THEN E.args.extra[k] ELSE fixed[k]]

\* asdict(event) of the InteractionEvent log_interaction builds
InteractionData(e, E) ==
    [k \in {"event_id", "session_id", "timestamp", "event_type", "user_input",
            "agent_response", "agent_name", "tool_name", "tool_input",
            "tool_output", "duration_ms", "metadata", "error"} |->
        CASE k = "event_id"    -> <<"uuid", e>>
          [] k = "session_id"  -> <<"session", E.session_id>>
          [] k = "timestamp"   -> <<"now", E.ts>>
          [] k = "event_type"  -> <<"event_type", 0>>
          [] k = "agent_name"  -> Optional("agent", E.args.agent_name)
          [] k = "duration_ms" -> Optional("ms", E.args.duration_ms)
          [] k = "metadata"    -> <<"dict", 0>>
          [] OTHER             -> PyNone]

\* the attributes log_interaction sets on the record it builds: each is
\* assigned whether or not the caller gave a value
InteractionRecord(e, E) ==
    [k \in {"session_id", "interaction_type", "interaction_data", "duration",
            "agent_name"} |->
        CASE k = "session_id"       -> <<"session", E.session_id>>
          [] k = "interaction_type" -> <<"event_type", 0>>
          [] k = "duration"         -> Optional("ms", E.args.duration_ms)
          [] k = "agent_name"       -> Optional("agent", E.args.agent_name)
          [] OTHER                  -> <<"dict", 0>>]

\* InteractionFormatter.format: the base fields with their getattr
\* defaults, update() with interaction_data, then the keys added when the
\* record has the attribute (hasattr)
InteractionFormatter_format(e, E) ==
    LET rec  == InteractionRecord(e, E)
        Get(a, default) == IF a \in DOMAIN rec THEN rec[a] ELSE default
        base == [k \in {"timestamp", "session_id", "interaction_type",
                        "user_id", "message"} |->
                   CASE k = "timestamp"        -> <<"created", E.ts>>
                     [] k = "session_id"       -> Get("session_id", <<"unknown", 0>>)
                     [] k = "interaction_type" -> Get("interaction_type", <<"general", 0>>)
                     [] k = "user_id"          -> Get("user_id", <<"anonymous", 0>>)
                     [] OTHER                  -> <<"msg", 0>>]
        data == IF "interaction_data" \in DOMAIN rec
                THEN InteractionData(e, E) ELSE <<>>
        Has(a) == a \in DOMAIN rec
        added == (IF Has("duration") THEN {"duration_ms"} ELSE {})
                 \cup (IF Has("agent_name") THEN {"agent"} ELSE {})
                 \cup (IF Has("tool_name") THEN {"tool"} ELSE {})
    IN  [k \in DOMAIN base \cup DOMAIN data \cup added |->
            IF k = "duration_ms" /\ Has("duration") THEN rec["duration"]
            ELSE IF k = "agent" /\ Has("agent_name") THEN rec["agent_name"]
            ELSE IF k = "tool" /\ Has("tool_name") THEN rec["tool_name"]
            ELSE IF k \in DOMAIN data THEN data[k]
            ELSE base[k]]

\* the mapping written for event e by a sink with encoder fmt
Encoded(fmt, e) ==
    IF fmt = "InteractionFormatter"
    THEN InteractionFormatter_format(e, events[e])
    ELSE StructuredFormatter_format(events[e])

----------------------------------------------------------------------------
\* One handler taking the record: Handler.handle acquires the handler's
\* lock, calls emit, releases the lock.

\* (mutation) emit entered without taking the handler's lock
CanAcquire_unlocked(h) == TRUE

CanAcquire(h) == lock[h] = 0

\* (mutation) a lock that its holder cannot take again
CanReacquire_plain(h, t) == lock[h] = 0

\* Handler.createLock makes a threading.RLock: the thread that holds it may
\* take it again, as close() does when emit calls it
CanReacquire(h, t) == lock[h] \in {0, t}

\* lock acquired; emit reads the clock and compares with current_date
EmitCheck(t) ==
    /\ thr[t].pc = "handle"
    /\ LET h == Head(thr[t].q) IN
       /\ CanAcquire(h)
       /\ lock' = [lock EXCEPT ![h] = t]
       /\ thr' = [thr EXCEPT ![t].tday = IF hnd[h].kind = "file" THEN today ELSE 0,
                             ![t].pc = IF hnd[h].kind = "file"
                                          /\ today # hnd[h].current_date
                                       THEN "rotate" ELSE "write"]
    /\ UNCHANGED <<today, clock, files, hnd, loggers, events, console, cfglog,
                   deleted, rotated, opened, cleaned, written, bound, faults,
                   caller>>

\* emit, the date has changed: close, re-point to the new dated name,
\* forget the stream, clean the directory
EmitRotate(t) ==
    /\ thr[t].pc = "rotate"
    /\ CanReacquire(Head(thr[t].q), t)
    /\ LET h == Head(thr[t].q)
           H == hnd[h]
           date == thr[t].tday
           after == _cleanup_old_files(Flushed(files[H.dir], H, clock),
                                       H.max_files)
       IN
       /\ hnd' = [hnd EXCEPT ![h].current_date = date, ![h].base = date,
                             ![h].stream = 0, ![h].buf = <<>>]
       /\ files' = [files EXCEPT ![H.dir] = after]
       /\ deleted' = deleted \cup Unlinked(H.dir, files[H.dir], after)
       /\ rotated' = [rotated EXCEPT ![h] = Append(@, date)]
       /\ cleaned' = [cleaned EXCEPT ![h] = Append(@, date)]
    /\ thr' = [thr EXCEPT ![t].pc = "write"]
    /\ UNCHANGED <<today, clock, lock, loggers, events, console, cfglog,
                   opened, written, bound, faults, caller>>

\* super().emit(record): FileHandler.emit opens the file when the stream is
\* None, StreamHandler.emit writes the formatted record and flushes; then
\* Handler.handle releases the lock and callHandlers goes on.
EmitWrite(t) ==
    /\ thr[t].pc = "write"
    /\ LET h == Head(thr[t].q)
           H == hnd[h]
           ev == thr[t].ev
           rest == Tail(thr[t].q)
           fsOpen == IF H.stream = 0
                     THEN OpenAppend(files[H.dir], H.base, clock)
                     ELSE files[H.dir]
           ino == IF H.stream = 0 THEN fsOpen[H.base].ino ELSE H.stream
       IN
       /\ IF H.kind = "file"
          THEN /\ files' = [files EXCEPT ![H.dir] =
                     WriteLines(fsOpen, H.base, ino,
                                H.buf \o FormatLines(H.fmt, ev), clock)]
               /\ hnd' = [hnd EXCEPT ![h].stream = ino, ![h].buf = <<>>]
               /\ opened' = IF H.stream = 0
                            THEN [opened EXCEPT ![h] = Append(@, H.base)]
                            ELSE opened
               /\ written' = [written EXCEPT ![ev] =
                     Append(@, [h |-> h, day |-> H.base, tday |-> thr[t].tday,
                                nrot |-> Len(rotated[h])])]
               /\ UNCHANGED console
          ELSE /\ console' = Append(console, ev)
               /\ UNCHANGED <<files, hnd, opened, written>>
       /\ lock' = [lock EXCEPT ![h] = 0]
       /\ thr' = [thr EXCEPT ![t].q = rest,
                             ![t].pc = IF rest = <<>> THEN "idle" ELSE "handle"]
    /\ clock' = clock + 1
    /\ UNCHANGED <<today, loggers, events, cfglog, deleted,
                   rotated, cleaned, bound, faults, caller>>

\* (mutation) midnight passes and a timer rotates every sink at once
AdvanceDay_eager(maxDay) ==
    /\ today < maxDay
    /\ today' = today + 1
    /\ hnd' = [h \in DOMAIN hnd |->
                 IF hnd[h].kind = "file"
                 THEN [hnd[h] EXCEPT !.current_date = today + 1,
                                     !.base = today + 1, !.stream = 0]
                 ELSE hnd[h]]
    /\ UNCHANGED <<clock, files, lock, loggers, thr, events, console,
                   cfglog, deleted, rotated, opened, cleaned,
                   written, bound, faults, caller>>

\* handler.close() called from outside emit (logging.shutdown, a test's
\* teardown): under the handler's lock the stream is flushed, closed and
\* forgotten; the next emit opens the file again
HandlerClose(h) ==
    /\ h \in DOMAIN hnd
    /\ hnd[h].kind = "file"
    /\ hnd[h].stream # 0
    /\ CanAcquire(h)
    /\ files' = [files EXCEPT ![hnd[h].dir] = Flushed(@, hnd[h], clock)]
    /\ hnd' = [hnd EXCEPT ![h].stream = 0, ![h].buf = <<>>]
    /\ UNCHANGED <<today, clock, lock, loggers, thr, events, console,
                   cfglog, deleted, rotated, opened, cleaned,
                   written, bound, faults, caller>>

\* midnight passes
AdvanceDay(maxDay) ==
    /\ today < maxDay
    /\ today' = today + 1
    /\ UNCHANGED <<clock, files, hnd, lock, loggers, thr, events, console,
                   cfglog, deleted, rotated, opened, cleaned,
                   written, bound, faults, caller>>

----------------------------------------------------------------------------
\* Failures of the environment (directory not writable, disk full, I/O
\* error) and what the code does with them.

Fault(kind, ev, h, ch) == [kind |-> kind, ev |-> ev, h |-> h, ch |-> ch]

\* setup_logging(config) in which the environment fails.  fc is the sink
\* whose construction raises (mkdir or open in DateRotatingFileHandler's
\* __init__), "none" when every sink is constructed; cleanupFails tells that
\* the listing of _cleanup_old_files fails in the constructors, which the
\* constructor swallows.  Nothing in setup_logging or _setup_*_logger catches
\* an exception: the statements before the failing constructor have taken
\* effect, those after it are not executed.
setup_logging_failing(cfg, fc, cleanupFails, maxSetups) ==
    LET chans   == SelectSeq(SetupOrder, LAMBDA c : IsSetUp(cfg, c))
        order   == <<"system">> \o chans
        stop    == IF fc = "none" THEN Len(order) + 1
                   ELSE CHOOSE i \in DOMAIN order : order[i] = fc
        done    == SubSeq(chans, 1, stop - 2)
        sysOk   == stop > 1
        base    == Len(hnd)
        sysId   == base + 1
        conId   == base + 2
        IdOf(c) == base + 2 + (CHOOSE i \in DOMAIN done : done[i] = c)
        built   == IF sysOk THEN {"system"} \cup Range(done) ELSE {}
        DirOf(c) == <<cfg.log_dir, c>>
        Obj(c)  == FileHandlerObj(DirOf(c), cfg.max_log_files, today,
                      OpenAppend(files[DirOf(c)], today, clock)[today].ino,
                      IF c = "system" THEN "StructuredFormatter" ELSE FormatterOf(c),
                      IF c = "system" THEN cfg.level["system"] ELSE 0)
        newH    == IF sysOk
                   THEN <<Obj("system"), ConsoleHandlerObj(WARNING)>>
                          \o [i \in DOMAIN done |-> Obj(done[i])]
                   ELSE <<>>
        newF    == [d \in Dirs |->
                      IF d[1] = cfg.log_dir /\ d[2] \in built
                      THEN (IF cleanupFails
                            THEN OpenAppend(files[d], today, clock)
                            ELSE InitDir(files[d], today, cfg.max_log_files, clock))
                      ELSE files[d]]
        hist    == [i \in DOMAIN newH |-> IF newH[i].kind = "file" THEN <<today>> ELSE <<>>]
        nth     == Len(cfglog) + 1
    IN
    /\ Len(cfglog) < maxSetups
    /\ \A t \in Threads : thr[t].pc = "idle"
    /\ fc \in {"none", "system"} \cup Range(chans)
    /\ fc # "none" \/ cleanupFails
    /\ files' = newF
    /\ deleted' = deleted \cup UNION
          {Unlinked(d, OpenAppend(files[d], today, clock), newF[d]) :
               d \in {x \in Dirs : x[1] = cfg.log_dir /\ x[2] \in built}}
    /\ hnd' = hnd \o newH
    /\ lock' = lock \o [i \in DOMAIN newH |-> 0]
    /\ rotated' = rotated \o [i \in DOMAIN newH |-> <<>>]
    /\ opened' = opened \o hist
    /\ cleaned' = cleaned \o (IF cleanupFails THEN [i \in DOMAIN newH |-> <<>>] ELSE hist)
    /\ loggers' = [n \in LoggerNames |->
          IF n = "root"
          THEN [handlers |-> IF sysOk THEN <<sysId, conId>> ELSE <<>>,
                propagate |-> TRUE,
                level |-> cfg.level["system"]]
          ELSE IF n \in Range(done)
          THEN [handlers |-> ChannelHandlersAfterSetup(loggers[n].handlers, IdOf(n)),
                propagate |-> FALSE,
                level |-> LoggerLevelOf(cfg, n)]
          ELSE IF n = fc
          THEN [handlers |-> loggers[n].handlers,
                propagate |-> FALSE,
                level |-> LoggerLevelOf(cfg, n)]
          ELSE loggers[n]]
    /\ clock' = clock + 1
    /\ cfglog' = Append(cfglog, cfg)
    /\ faults' = faults
          \cup (IF fc # "none"
                THEN {Fault("setup", nth, 0, fc), Fault("setup_raised", nth, 0, fc)}
                ELSE {})
          \cup (IF cleanupFails THEN {Fault("ctor_cleanup", nth, 0, "")} ELSE {})
    /\ UNCHANGED <<today, thr, events, console, written, bound, caller>>

\* (mutation) a failure inside _cleanup_old_files reaches emit's caller
cleanup_raises_propagated(failed) == failed

\* _cleanup_old_files: "except Exception: pass", and "except OSError: pass"
\* around each unlink
cleanup_raises(failed) == FALSE

\* (mutation) the handler gives up its stream after a failed write
StreamAfterError_broken(ino) == -1

\* StreamHandler.emit: "except Exception: self.handleError(record)", which
\* prints a traceback on stderr and leaves the handler's stream as it is
StreamAfterError(ino) == ino

\* an exception leaves Handler.handle (its lock is released on the way out),
\* Logger.callHandlers and the logging operation: no later handler gets the
\* record and the operation returns nothing
RaiseOut(t, h) ==
    /\ lock' = [lock EXCEPT ![h] = 0]
    /\ thr' = [thr EXCEPT ![t].q = <<>>, ![t].pc = "idle"]

\* (mutation) self.current_date = today placed before self.close()
DateAfterFailedClose_assigned_first(H, date) == date

\* self.close() precedes the assignment of self.current_date: when it
\* raises, the sink keeps the date it had
DateAfterFailedClose(H, date) == H.current_date

\* emit, the date has changed, self.close() raises (the flush or the close
\* of the old stream fails; FileHandler.close has set self.stream to None
\* by then): the statements after it are not executed
EmitRotateCloseFails(t) ==
    /\ thr[t].pc = "rotate"
    /\ LET h == Head(thr[t].q) IN
       /\ hnd[h].stream # 0
       /\ hnd' = [hnd EXCEPT ![h].stream = 0, ![h].buf = <<>>,
                             ![h].current_date =
                                 DateAfterFailedClose(hnd[h], thr[t].tday)]
       /\ faults' = faults \cup {Fault("close", thr[t].ev, h, ""),
                                 Fault("raised", thr[t].ev, h, "")}
       /\ RaiseOut(t, h)
    /\ UNCHANGED <<today, clock, files, loggers, events, console, cfglog,
                   deleted, rotated, opened, cleaned, written, bound,
                   caller>>

\* emit, the date has changed, and _cleanup_old_files meets a failure: the
\* listing or a stat fails (nothing is removed) or some unlink fails (the
\* other files are removed)
EmitRotateCleanupFails(t) ==
    /\ thr[t].pc = "rotate"
    /\ LET h == Head(thr[t].q)
           H == hnd[h]
           date == thr[t].tday
           fs == Flushed(files[H.dir], H, clock)
           R == Range(files_to_remove(fs, H.max_files))
       IN
       \E G \in SUBSET R :
          /\ G # R \/ R = {}
          /\ hnd' = [hnd EXCEPT ![h].current_date = date, ![h].base = date,
                                ![h].stream = 0, ![h].buf = <<>>]
          /\ files' = [files EXCEPT ![H.dir] = [d \in DOMAIN fs \ G |-> fs[d]]]
          /\ deleted' = deleted \cup {<<H.dir, d>> : d \in G}
          /\ rotated' = [rotated EXCEPT ![h] = Append(@, date)]
          /\ cleaned' = [cleaned EXCEPT ![h] = Append(@, date)]
          /\ IF cleanup_raises(TRUE)
             THEN /\ RaiseOut(t, h)
                  /\ faults' = faults \cup {Fault("cleanup", thr[t].ev, h, ""),
                                            Fault("raised", thr[t].ev, h, "")}
             ELSE /\ thr' = [thr EXCEPT ![t].pc = "write"]
                  /\ faults' = faults \cup {Fault("cleanup", thr[t].ev, h, "")}
                  /\ UNCHANGED lock
    /\ UNCHANGED <<today, clock, loggers, events, console, cfglog,
                   opened, written, bound, caller>>

\* FileHandler.emit with no stream: self._open() raises; the call is outside
\* StreamHandler.emit's try
EmitWriteOpenFails(t) ==
    /\ thr[t].pc = "write"
    /\ LET h == Head(thr[t].q) IN
       /\ hnd[h].kind = "file"
       /\ hnd[h].stream = 0
       /\ faults' = faults \cup {Fault("open", thr[t].ev, h, ""),
                                 Fault("raised", thr[t].ev, h, "")}
       /\ RaiseOut(t, h)
    /\ UNCHANGED <<today, clock, files, hnd, loggers, events, console, cfglog,
                   deleted, rotated, opened, cleaned, written, bound,
                   caller>>

\* StreamHandler.emit: self.format(record) raises (json.dumps meets a value
\* it cannot serialize; neither formatter passes default=); the stream has
\* been opened, nothing is written, handleError swallows the exception
EmitEncodeFails(t) ==
    /\ thr[t].pc = "write"
    /\ LET h == Head(thr[t].q)
           H == hnd[h]
           rest == Tail(thr[t].q)
           fsOpen == IF H.stream = 0
                     THEN OpenAppend(files[H.dir], H.base, clock)
                     ELSE files[H.dir]
           ino == IF H.stream = 0 THEN fsOpen[H.base].ino ELSE H.stream
       IN
       /\ H.kind = "file"
       /\ files' = [files EXCEPT ![H.dir] = fsOpen]
       /\ hnd' = [hnd EXCEPT ![h].stream = StreamAfterError(ino)]
       /\ opened' = IF H.stream = 0
                    THEN [opened EXCEPT ![h] = Append(@, H.base)]
                    ELSE opened
       /\ faults' = faults \cup {Fault("encode", thr[t].ev, h, "")}
       /\ lock' = [lock EXCEPT ![h] = 0]
       /\ thr' = [thr EXCEPT ![t].q = rest,
                             ![t].pc = IF rest = <<>> THEN "idle" ELSE "handle"]
    /\ clock' = clock + 1
    /\ UNCHANGED <<today, loggers, events, console, cfglog, deleted,
                   rotated, cleaned, written, bound, caller>>

\* StreamHandler.emit: stream.write or flush raises; handleError swallows
\* the exception.  When the flush failed the text stays in the stream's
\* buffer (kept) and goes out with the next flush that succeeds; when the
\* write itself failed the text is gone.
EmitWriteFails(t) ==
    /\ thr[t].pc = "write"
    /\ LET h == Head(thr[t].q)
           H == hnd[h]
           rest == Tail(thr[t].q)
           fsOpen == IF H.stream = 0
                     THEN OpenAppend(files[H.dir], H.base, clock)
                     ELSE files[H.dir]
           ino == IF H.stream = 0 THEN fsOpen[H.base].ino ELSE H.stream
       IN
       /\ H.kind = "file"
       /\ \E kept \in BOOLEAN :
             hnd' = [hnd EXCEPT ![h].stream = StreamAfterError(ino),
                                ![h].buf = IF kept
                                           THEN @ \o FormatLines(H.fmt, thr[t].ev)
                                           ELSE @]
       /\ files' = [files EXCEPT ![H.dir] = fsOpen]
       /\ opened' = IF H.stream = 0
                    THEN [opened EXCEPT ![h] = Append(@, H.base)]
                    ELSE opened
       /\ faults' = faults \cup {Fault("write", thr[t].ev, h, "")}
       /\ lock' = [lock EXCEPT ![h] = 0]
       /\ thr' = [thr EXCEPT ![t].q = rest,
                             ![t].pc = IF rest = <<>> THEN "idle" ELSE "handle"]
    /\ clock' = clock + 1
    /\ UNCHANGED <<today, loggers, events, console, cfglog, deleted,
                   rotated, cleaned, written, bound, caller>>

----------------------------------------------------------------------------
\* Single-sink scenario: one configuration with the interactions channel,
\* one thread, a week of days.

SinkConfigs ==
    {LoggingConfig("A", {"interactions"}, AllInfo, n) : n \in -1..MaxRetention}

NextSink ==
    \/ \E cfg \in SinkConfigs : setup_logging(cfg, 1)
    \/ (Len(cfglog) = 1 /\ log_interaction(1, SinkMaxEvents, SinkMaxEvents))
    \/ (Len(cfglog) = 1 /\ EmitCheck(1))
    \/ EmitRotate(1)
    \/ EmitWrite(1)
    \/ (Len(cfglog) = 1 /\ AdvanceDay(SinkMaxDay))

SpecSink == Init /\ [][NextSink]_vars

----------------------------------------------------------------------------
\* Concurrent scenario: one configuration, NumThreads threads that each log
\* up to PerThread records to the interactions and agents channels, midnight
\* passing at any moment.

ThrConfigs ==
    {LoggingConfig("A", {"interactions", "agents"}, AllInfo, MaxRetention)}

NextThreads ==
    \/ \E cfg \in ThrConfigs : setup_logging(cfg, 1)
    \/ \E t \in Threads :
          Len(cfglog) = 1 /\ log_interaction(t, ThrMaxEvents, PerThread)
    \/ \E t \in Threads :
          Len(cfglog) = 1 /\ log_agent_activity(t, ThrMaxEvents, PerThread)
    \/ \E t \in Threads : EmitCheck(t)
    \/ \E t \in Threads : EmitRotate(t)
    \/ \E t \in Threads : EmitWrite(t)
    \/ (Len(cfglog) = 1 /\ AdvanceDay(ThrMaxDay))

SpecThreads == InitEmpty /\ [][NextThreads]_vars

----------------------------------------------------------------------------
\* Liveness scenario: one configuration, NumThreads threads logging
\* interactions, midnight passing and the interactions sink being closed
\* from outside at any moment, under fair scheduling: a thread that can
\* take its next step inside Handler.handle eventually takes it.

LiveConfigs ==
    {LoggingConfig("A", {"interactions"}, AllInfo, MaxRetention)}

NextLive ==
    \/ \E cfg \in LiveConfigs : setup_logging(cfg, 1)
    \/ \E t \in Threads :
          Len(cfglog) = 1 /\ log_interaction(t, LiveMaxEvents, LivePerThread)
    \/ \E t \in Threads : EmitCheck(t)
    \/ \E t \in Threads : EmitRotate(t)
    \/ \E t \in Threads : EmitWrite(t)
    \/ \E h \in DOMAIN hnd :
          hnd[h].dir = <<"A", "interactions">> /\ HandlerClose(h)
    \/ (Len(cfglog) = 1 /\ AdvanceDay(LiveMaxDay))

Fairness ==
    \A t \in Threads :
        /\ WF_vars(EmitCheck(t))
        /\ WF_vars(EmitRotate(t))
        /\ WF_vars(EmitWrite(t))

SpecLive == InitEmpty /\ [][NextLive]_vars /\ Fairness

----------------------------------------------------------------------------
\* Operations scenario: one setup_logging call with a configuration that
\* disables at most one channel, then one thread using all six logging
\* operations, midnight passing at any moment.

OpsEnabled == {EventChannels} \cup {EventChannels \ {c} : c \in EventChannels}

OpsConfigs ==
    {LoggingConfig("A", en, AllInfo, MaxRetention) : en \in OpsEnabled}
    \cup {LoggingConfig("A", EventChannels,
                        [AllInfo EXCEPT !["workflows"] = ERROR, !["tools"] = ERROR],
                        MaxRetention)}

NextOps ==
    \/ \E cfg \in OpsConfigs : setup_logging(cfg, 1)
    \/ (Len(cfglog) = 1 /\ log_interaction(1, OpsMaxEvents, OpsMaxEvents))
    \/ (Len(cfglog) = 1 /\ log_agent_activity(1, OpsMaxEvents, OpsMaxEvents))
    \/ \E status \in {"started", "completed", "error"} :
          Len(cfglog) = 1 /\ log_workflow_event(1, status, OpsMaxEvents, OpsMaxEvents)
    \/ \E success \in BOOLEAN :
          Len(cfglog) = 1 /\ log_tool_usage(1, success, OpsMaxEvents, OpsMaxEvents)
    \/ (Len(cfglog) = 1 /\ log_performance_metric(1, OpsMaxEvents, OpsMaxEvents))
    \/ \E severity \in {"INFO", "ERROR", "high"} :
          Len(cfglog) = 1 /\ log_security_event(1, severity, OpsMaxEvents, OpsMaxEvents)
    \/ EmitCheck(1)
    \/ EmitRotate(1)
    \/ EmitWrite(1)
    \/ (Len(cfglog) = 1 /\ AdvanceDay(OpsMaxDay))

SpecOps == InitEmpty /\ [][NextOps]_vars

----------------------------------------------------------------------------
\* Re-configuration scenario: setup_logging called up to MaxSetups times,
\* with the interactions channel enabled or disabled, one thread logging
\* interactions and agent activities before, between and after the calls.

ReConfigs ==
    {LoggingConfig("A", en, AllInfo, MaxRetention) :
        en \in {EventChannels, EventChannels \ {"interactions"}}}

NextSetup ==
    \/ \E cfg \in ReConfigs : setup_logging(cfg, MaxSetups)
    \/ log_interaction(1, CfgMaxEvents, CfgMaxEvents)
    \/ log_agent_activity(1, CfgMaxEvents, CfgMaxEvents)
    \/ EmitCheck(1)
    \/ EmitWrite(1)

SpecSetup == InitEmpty /\ [][NextSetup]_vars

----------------------------------------------------------------------------
\* Redirection scenario: setup_logging called up to MaxSetups times with
\* configurations that differ in log_dir and in whether the interactions
\* channel is enabled, one thread logging interactions between and after
\* the calls.

DirsConfigs ==
    {LoggingConfig(d, en, AllInfo, MaxRetention) :
        d \in LogDirs, en \in {EventChannels, EventChannels \ {"interactions"}}}

NextDirs ==
    \/ \E cfg \in DirsConfigs : setup_logging(cfg, MaxSetups)
    \/ (Len(cfglog) >= 1 /\ log_interaction(1, CfgMaxEvents, CfgMaxEvents))
    \/ EmitCheck(1)
    \/ EmitWrite(1)

SpecDirs == InitEmpty /\ [][NextDirs]_vars

----------------------------------------------------------------------------
\* Kept-file scenario: the interactions directory holds yesterday's and
\* today's file with modification times in either order; one setup_logging
\* call with a positive retention count, then one thread logging
\* interactions while days pass.

KeepConfigs ==
    {LoggingConfig("A", {"interactions"}, AllInfo, n) : n \in 1..MaxRetention}

NextKeep ==
    \/ \E cfg \in KeepConfigs : setup_logging(cfg, 1)
    \/ (Len(cfglog) = 1 /\ log_interaction(1, KeepMaxEvents, KeepMaxEvents))
    \/ EmitCheck(1)
    \/ EmitRotate(1)
    \/ EmitWrite(1)
    \/ (Len(cfglog) = 1 /\ AdvanceDay(KeepMaxDay))

SpecKeep == InitTouched /\ [][NextKeep]_vars

----------------------------------------------------------------------------
\* Failure scenario: one setup_logging call, in which a sink's construction
\* may fail, then one thread logging interactions and agent activities
\* across a midnight while closes, opens, encodings, writes and cleanups
\* may fail.

FaultConfigs ==
    {LoggingConfig("A", {"interactions", "agents"}, AllInfo, MaxRetention - 1)}

NextFaults ==
    \/ \E cfg \in FaultConfigs : setup_logging(cfg, 1)
    \/ \E cfg \in FaultConfigs : \E fc \in {"none", "system"} \cup EventChannels :
          \E cf \in BOOLEAN : setup_logging_failing(cfg, fc, cf, 1)
    \/ (Len(cfglog) = 1 /\ log_interaction(1, FaultMaxEvents, FaultMaxEvents))
    \/ (Len(cfglog) = 1 /\ log_agent_activity(1, FaultMaxEvents, FaultMaxEvents))
    \/ EmitCheck(1)
    \/ EmitRotate(1)
    \/ EmitWrite(1)
    \/ EmitRotateCloseFails(1)
    \/ EmitRotateCleanupFails(1)
    \/ EmitWriteOpenFails(1)
    \/ EmitEncodeFails(1)
    \/ EmitWriteFails(1)
    \/ (Len(cfglog) = 1 /\ AdvanceDay(FaultMaxDay))

SpecFaults == InitEmpty /\ [][NextFaults]_vars

----------------------------------------------------------------------------
\* Session scenario: one setup_logging call, then NumThreads threads, each
\* with a logger of its own session or with the process-wide one, logging
\* interactions and agent activities within one day.

\* InteractionLogger(session_id): thread t constructs the logger it will
\* use, bound to session s, before it logs anything
InteractionLogger_init(t, s) ==
    /\ thr[t].pc = "idle"
    /\ thr[t].n = 0
    /\ bound[t] = GlobalSession
    /\ bound' = [bound EXCEPT ![t] = s]
    /\ UNCHANGED <<today, clock, files, hnd, lock, loggers, thr, events,
                   console, cfglog, deleted, rotated, opened, cleaned,
                   written, faults, caller>>

SessConfigs ==
    {LoggingConfig("A", {"interactions", "agents"}, AllInfo, MaxRetention)}

NextSessions ==
    \/ \E cfg \in SessConfigs : setup_logging(cfg, 1)
    \/ \E t \in Threads : \E s \in Sessions :
          Len(cfglog) = 1 /\ InteractionLogger_init(t, s)
    \/ \E t \in Threads :
          Len(cfglog) = 1 /\ log_interaction(t, SessMaxEvents, SessPerThread)
    \/ \E t \in Threads :
          Len(cfglog) = 1 /\ log_agent_activity(t, SessMaxEvents, SessPerThread)
    \/ \E t \in Threads : EmitCheck(t)
    \/ \E t \in Threads : EmitWrite(t)

SpecSessions == InitEmpty /\ [][NextSessions]_vars

----------------------------------------------------------------------------
\* Restart scenario: the process starts in a directory that may hold the
\* interactions files of earlier runs, today's among them; one
\* setup_logging call, then one thread logging interactions and agent
\* activities while days pass.

RstConfigs ==
    {LoggingConfig("A", {"interactions", "agents"}, AllInfo, MaxRetention)}

NextRestart ==
    \/ \E cfg \in RstConfigs : setup_logging(cfg, 1)
    \/ (Len(cfglog) = 1 /\ log_interaction(1, RstMaxEvents, RstMaxEvents))
    \/ (Len(cfglog) = 1 /\ log_agent_activity(1, RstMaxEvents, RstMaxEvents))
    \/ EmitCheck(1)
    \/ EmitRotate(1)
    \/ EmitWrite(1)
    \/ (Len(cfglog) = 1 /\ AdvanceDay(RstMaxDay))

SpecRestart == InitRestart /\ [][NextRestart]_vars

----------------------------------------------------------------------------
\* Direct-use scenario: after one setup_logging call, one thread that logs
\* agent activities with token counts and interactions, and that stores a
\* date of its choice in a sink's current_date, while days pass.

\* handler.current_date = D, by code that holds the sink
SetCurrentDate(h, D) ==
    /\ \A t \in Threads : thr[t].pc = "idle"
    /\ h \in DOMAIN hnd
    /\ hnd[h].kind = "file"
    /\ hnd' = [hnd EXCEPT ![h].current_date = D]
    /\ assigned' = assigned \cup
          {[h |-> h, date |-> D, day |-> today, after |-> Len(events)]}
    /\ UNCHANGED <<today, clock, files, lock, loggers, thr, events, console,
                   cfglog, deleted, rotated, opened, cleaned, written,
                   bound, faults,
                   _global_logger, instances, getting, got, run, scope, wrap>>

\* the values of an Optional[int] token count
TokenCounts == {None} \cup 0..MaxTokens

DirConfigs ==
    {LoggingConfig("A", {"interactions", "agents"}, AllInfo, MaxRetention)}

NextDirect ==
    \/ \E cfg \in DirConfigs : setup_logging(cfg, 1)
    \/ \E p \in TokenCounts : \E c \in TokenCounts :
          /\ Len(cfglog) = 1
          /\ log_agent_activity_tokens(1, p, c, DirMaxEvents, DirMaxEvents)
    \/ (Len(cfglog) = 1 /\ log_interaction(1, DirMaxEvents, DirMaxEvents))
    \/ \E h \in DOMAIN hnd : \E D \in {today - 1, today + 1} :
          /\ assigned = {}
          /\ SetCurrentDate(h, D)
    \/ EmitCheck(1)
    \/ EmitRotate(1)
    \/ EmitWrite(1)
    \/ (Len(cfglog) = 1 /\ AdvanceDay(DirMaxDay))

SpecDirect == InitEmpty /\ [][NextDirect]_vars

----------------------------------------------------------------------------
\* Encoding scenario: one setup_logging call, then one thread that logs
\* interactions with or without agent name and duration, and that logs
\* through the root logger with extension fields of its choice; every
\* record is encoded by the sink that writes it.

\* names a caller may give an extension field: two of the encoder's fixed
\* fields and two free names
ExtNames == {"timestamp", "level", "session_id", "custom_field"}

Extras == UNION {[S -> {<<"extra", 1>>}] : S \in SUBSET ExtNames}

FmtConfigs ==
    {LoggingConfig("A", {"interactions"}, AllInfo, MaxRetention)}

NextFormat ==
    \/ \E cfg \in FmtConfigs : setup_logging(cfg, 1)
    \/ \E extra \in Extras :
          Len(cfglog) = 1 /\ logger_info(1, extra, FmtMaxEvents, FmtMaxEvents)
    \/ \E agent_name \in {None, 1} : \E duration_ms \in {None, 0, 5} :
          /\ Len(cfglog) = 1
          /\ log_interaction_with(1, agent_name, duration_ms,
                                  FmtMaxEvents, FmtMaxEvents)
    \/ EmitCheck(1)
    \/ EmitWrite(1)

SpecFormat == InitEmpty /\ [][NextFormat]_vars

----------------------------------------------------------------------------
\* The module-level logger and the workflow runs that use it.

\* run_agent_workflow_async: a run begins and has its session id
run_agent_workflow_async(t, s) ==
    /\ thr[t].pc = "idle"
    /\ run[t] = NoRun
    /\ run' = [run EXCEPT ![t].session_id = s]
    /\ UNCHANGED <<today, clock, files, hnd, lock, loggers, thr, events,
                   console, cfglog, deleted, rotated, opened, cleaned,
                   written, bound, faults,
                   _global_logger, instances, getting, got, scope, assigned, wrap>>

\* get_interaction_logger(session_id), entered by thread t: the condition
\*   _global_logger is None or
\*   (session_id and _global_logger.session_id != session_id)
\* is evaluated.  s = 0 stands for a call that names no session.  A run
\* calls it with its own session id, and with no session id (through a
\* module-level convenience function) once it holds its logger and has
\* used the logger it selected before.
get_interaction_logger(t, s, maxGets) ==
    LET replace == \/ _global_logger = 0
                   \/ s # 0 /\ instances[_global_logger] # s
    IN
    /\ thr[t].pc = "idle"
    /\ getting[t].pc = "none"
    /\ Len(got) + Cardinality({u \in Threads : getting[u].pc # "none"}) < maxGets
    /\ run[t].session_id # 0
    /\ run[t].selected = thr[t].n
    /\ IF s = 0 THEN run[t].interaction_logger # 0 ELSE s = run[t].session_id
    /\ getting' = [getting EXCEPT ![t] =
                      [pc |-> IF replace THEN "assign" ELSE "return",
                       session_id |-> s, ret |-> 0]]
    /\ UNCHANGED <<today, clock, files, hnd, lock, loggers, thr, events,
                   console, cfglog, deleted, rotated, opened, cleaned,
                   written, bound, faults,
                   _global_logger, instances, got, run, scope, assigned, wrap>>

\* self.session_id = session_id or str(uuid.uuid4()): a generated id is
\* unlike every other id
NewSessionId(s, k) == IF s # 0 THEN s ELSE 0 - k

\* _global_logger = InteractionLogger(session_id)
GetAssign(t) ==
    /\ getting[t].pc = "assign"
    /\ instances' = Append(instances,
                           NewSessionId(getting[t].session_id, Len(instances) + 1))
    /\ _global_logger' = Len(instances) + 1
    /\ getting' = [getting EXCEPT ![t].pc = "return"]
    /\ UNCHANGED <<today, clock, files, hnd, lock, loggers, thr, events,
                   console, cfglog, deleted, rotated, opened, cleaned,
                   written, bound, faults, got, run, scope, assigned, wrap>>

\* return _global_logger: the module variable is read again.  The caller
\* keeps the logger of its own call in interaction_logger; the logger of a
\* call without session id is the one the convenience function logs with.
GetReturn(t) ==
    LET ret == _global_logger
        s   == getting[t].session_id
    IN
    /\ getting[t].pc = "return"
    /\ got' = Append(got, [by |-> t, session_id |-> s, ret |-> ret])
    /\ getting' = [getting EXCEPT ![t] = NotGetting]
    /\ IF s = 0
       THEN /\ run' = [run EXCEPT ![t].selected = @ + 1, ![t].via = "module"]
            /\ bound' = [bound EXCEPT ![t] = instances[ret]]
       ELSE /\ run' = [run EXCEPT ![t].interaction_logger = ret]
            /\ UNCHANGED bound
    /\ UNCHANGED <<today, clock, files, hnd, lock, loggers, thr, events,
                   console, cfglog, deleted, rotated, opened, cleaned,
                   written, faults, _global_logger, instances, scope, assigned, wrap>>

\* interaction_logger.log_interaction(...): the run turns to the logger it
\* holds in its local variable
UseLocal(t) ==
    /\ thr[t].pc = "idle"
    /\ getting[t].pc = "none"
    /\ run[t].interaction_logger # 0
    /\ run[t].selected = thr[t].n
    /\ run' = [run EXCEPT ![t].selected = @ + 1, ![t].via = "local"]
    /\ bound' = [bound EXCEPT ![t] = instances[run[t].interaction_logger]]
    /\ UNCHANGED <<today, clock, files, hnd, lock, loggers, thr, events,
                   console, cfglog, deleted, rotated, opened, cleaned,
                   written, faults,
                   _global_logger, instances, getting, got, scope, assigned, wrap>>

\* Runs scenario: one setup_logging call, then NumThreads threads, each a
\* workflow run with a session id, logging workflow events through the
\* module-level function and interactions through the logger it holds.

RunConfigs ==
    {LoggingConfig("A", {"interactions", "workflows"}, AllInfo, MaxRetention)}

\* the thread has selected a logger, in the given way, and not yet used it
Selected(t, via) == run[t].selected > thr[t].n /\ run[t].via = via

NextRuns ==
    \/ \E cfg \in RunConfigs : setup_logging(cfg, 1)
    \/ \E t \in Threads : \E s \in Sessions :
          Len(cfglog) = 1 /\ run_agent_workflow_async(t, s)
    \/ \E t \in Threads : \E s \in Sessions \cup {0} :
          get_interaction_logger(t, s, RunMaxGets)
    \/ \E t \in Threads : GetAssign(t)
    \/ \E t \in Threads : GetReturn(t)
    \/ \E t \in Threads : UseLocal(t)
    \/ \E t \in Threads : \E status \in {"started", "completed"} :
          /\ Selected(t, "module")
          /\ log_workflow_event(t, status, RunMaxEvents, RunMaxEvents)
    \/ \E t \in Threads :
          /\ Selected(t, "local")
          /\ log_interaction(t, RunMaxEvents, RunMaxEvents)
    \/ \E t \in Threads : EmitCheck(t)
    \/ \E t \in Threads : EmitWrite(t)

SpecRuns == InitEmpty /\ [][NextRuns]_vars

----------------------------------------------------------------------------
\* InteractionLogger.timing(operation_name), a context manager:
\*     start_time = time.time()
\*     try: yield
\*     finally: self.log_performance_metric(operation_name, duration, "ms")

\* with logger.timing(name): the scope is entered
timing(t, operation_name, maxScopes) ==
    /\ thr[t].pc = "idle"
    /\ scope[t].pc = "out"
    /\ Len(scope[t].left) < maxScopes
    /\ scope' = [scope EXCEPT ![t].pc = "body",
                              ![t].operation_name = operation_name,
                              ![t].start_time = clock]
    /\ UNCHANGED <<today, clock, files, hnd, lock, loggers, thr, events,
                   console, cfglog, deleted, rotated, opened, cleaned,
                   written, bound, faults,
                   _global_logger, instances, getting, got, run, assigned, wrap>>

\* the body ends, normally or by raising; control enters the finally clause
BodyEnds(t, raised) ==
    /\ thr[t].pc = "idle"
    /\ scope[t].pc = "body"
    /\ scope' = [scope EXCEPT ![t].pc = "finally", ![t].raised = raised,
                              ![t].n0 = thr[t].n]
    /\ UNCHANGED <<today, clock, files, hnd, lock, loggers, thr, events,
                   console, cfglog, deleted, rotated, opened, cleaned,
                   written, bound, faults,
                   _global_logger, instances, getting, got, run, assigned, wrap>>

\* (mutation) the metric is logged after the yield, not in a finally clause
LogsOnExit_normal_only(raised) == ~raised

\* a finally clause runs on both exits
LogsOnExit(raised) == TRUE

\* the finally clause: the elapsed time is computed and logged
timing_finally(t, maxEv, per) ==
    /\ scope[t].pc = "finally"
    /\ LogsOnExit(scope[t].raised)
    /\ thr[t].n = scope[t].n0
    /\ log_metric(t, scope[t].operation_name, clock - scope[t].start_time,
                  maxEv, per)

\* the scope is left: the with statement completes, or the body's exception
\* goes on to the caller
timing_exit(t) ==
    /\ thr[t].pc = "idle"
    /\ scope[t].pc = "finally"
    /\ thr[t].n = scope[t].n0 + (IF LogsOnExit(scope[t].raised) THEN 1 ELSE 0)
    /\ scope' = [scope EXCEPT ![t] =
          [NoScope EXCEPT !.left = Append(scope[t].left,
              [operation_name |-> scope[t].operation_name,
               start_time |-> scope[t].start_time,
               n0 |-> scope[t].n0, n1 |-> thr[t].n,
               raised |-> scope[t].raised,
               outcome |-> IF scope[t].raised THEN "exception" ELSE "normal"])]]
    /\ UNCHANGED <<today, clock, files, hnd, lock, loggers, thr, events,
                   console, cfglog, deleted, rotated, opened, cleaned,
                   written, bound, faults,
                   _global_logger, instances, getting, got, run, assigned, wrap>>

\* Timing scenario: one setup_logging call, then one thread entering timing
\* scopes whose bodies log interactions and end normally or by raising.

TimConfigs ==
    {LoggingConfig("A", {"interactions", "performance"}, AllInfo, MaxRetention)}

NextTiming ==
    \/ \E cfg \in TimConfigs : setup_logging(cfg, 1)
    \/ \E name \in {"load", "plan"} :
          Len(cfglog) = 1 /\ timing(1, name, TimMaxScopes)
    \/ (scope[1].pc = "body" /\ log_interaction(1, TimMaxEvents - 1, TimMaxEvents))
    \/ \E raised \in BOOLEAN : BodyEnds(1, raised)
    \/ timing_finally(1, TimMaxEvents, TimMaxEvents)
    \/ timing_exit(1)
    \/ EmitCheck(1)
    \/ EmitWrite(1)

SpecTiming == InitEmpty /\ [][NextTiming]_vars

----------------------------------------------------------------------------
\* The decorators logged_interaction and logged_agent_activity:
\*     try:
\*         result = func(*args, **kwargs)
\*         log_...(<function_call | activity_type>, duration_ms=...)
\*         return result
\*     except Exception as e:
\*         log_...(<function_error | activity_type + "_error">, ...)
\*         raise

\* how a wrapped function ends: it returns, it raises an exception that
\* "except Exception" catches, or one that derives from BaseException only
\* (KeyboardInterrupt, SystemExit, GeneratorExit, asyncio.CancelledError)
Outcomes == {"return", "Exception", "BaseException"}

Decorators == {"logged_interaction", "logged_agent_activity"}

\* the channel a decorator logs to
WrapOp(w) ==
    IF w.decorator = "logged_interaction" THEN "interactions" ELSE "agents"

\* event_type="function_call", respectively activity_type=activity_type
OkTag(w) ==
    IF w.decorator = "logged_interaction" THEN "function_call"
    ELSE w.activity_type

\* event_type="function_error", respectively f"{activity_type}_error"
ErrorTag(w) ==
    IF w.decorator = "logged_interaction" THEN "function_error"
    ELSE w.activity_type \o "_error"

\* the logging call thread t made last ended by raising
LogRaised(t) == \E f \in faults : f.kind = "raised" /\ f.ev = thr[t].ev

\* the wrapper's own log call: agent_name is given for both decorators and
\* duration_ms is the time since start_time
WrapLog(t, tag, maxEv) ==
    LogCall(t, WrapOp(wrap[t]),
            [NoArgs EXCEPT !.tag = tag, !.agent_name = 1,
                           !.duration_ms = clock - wrap[t].start_time],
            INFO, TRUE, TRUE, maxEv, maxEv)

\* the wrapper is left: the caller receives a value or an exception
LeaveWrapper(t, reached) ==
    wrap' = [wrap EXCEPT ![t] =
        [NoCall EXCEPT !.left = Append(wrap[t].left,
            [decorator |-> wrap[t].decorator,
             activity_type |-> wrap[t].activity_type,
             func |-> IF wrap[t].func = "" THEN reached ELSE wrap[t].func,
             n0 |-> wrap[t].n0, n1 |-> thr[t].n,
             reached |-> reached])]]

\* wrapper(*args, **kwargs): start_time is read and func is called
wrapper(t, decorator, activity_type, maxCalls) ==
    /\ thr[t].pc = "idle"
    /\ wrap[t].pc = "out"
    /\ Len(wrap[t].left) < maxCalls
    /\ wrap' = [wrap EXCEPT ![t].pc = "func", ![t].decorator = decorator,
                            ![t].activity_type = activity_type,
                            ![t].start_time = clock, ![t].n0 = thr[t].n]
    /\ UNCHANGED <<today, clock, files, hnd, lock, loggers, thr, events,
                   console, cfglog, deleted, rotated, opened, cleaned,
                   written, bound, faults, _global_logger, instances,
                   getting, got, run, scope, assigned>>

\* func ends: a return value goes on inside the try block, an Exception
\* enters the except clause, anything else leaves the wrapper at once
func_ends(t, outcome) ==
    /\ wrap[t].pc = "func"
    /\ IF outcome = "BaseException"
       THEN LeaveWrapper(t, outcome)
       ELSE wrap' = [wrap EXCEPT
                ![t].pc = IF outcome = "return" THEN "try" ELSE "except",
                ![t].func = outcome,
                ![t].pending = IF outcome = "return" THEN "" ELSE outcome]
    /\ UNCHANGED <<today, clock, files, hnd, lock, loggers, thr, events,
                   console, cfglog, deleted, rotated, opened, cleaned,
                   written, bound, faults, _global_logger, instances,
                   getting, got, run, scope, assigned>>

\* inside the try block, after func has returned: the success event
try_log(t, maxEv) ==
    /\ wrap[t].pc = "try"
    /\ thr[t].n = wrap[t].n0
    /\ WrapLog(t, OkTag(wrap[t]), maxEv)

\* return result
wrapper_return(t) ==
    /\ wrap[t].pc = "try"
    /\ thr[t].pc = "idle"
    /\ thr[t].n = wrap[t].n0 + 1
    /\ ~LogRaised(t)
    /\ LeaveWrapper(t, "return")
    /\ UNCHANGED <<today, clock, files, hnd, lock, loggers, thr, events,
                   console, cfglog, deleted, rotated, opened, cleaned,
                   written, bound, faults, _global_logger, instances,
                   getting, got, run, scope, assigned>>

\* the success log call raised inside the try block: its exception enters
\* the except clause of the same try statement
try_log_raised(t) ==
    /\ wrap[t].pc = "try"
    /\ thr[t].pc = "idle"
    /\ thr[t].n = wrap[t].n0 + 1
    /\ LogRaised(t)
    /\ wrap' = [wrap EXCEPT ![t].pc = "except", ![t].pending = "OSError"]
    /\ UNCHANGED <<today, clock, files, hnd, lock, loggers, thr, events,
                   console, cfglog, deleted, rotated, opened, cleaned,
                   written, bound, faults, _global_logger, instances,
                   getting, got, run, scope, assigned>>

\* log calls the wrapper made before it entered the except clause
LoggedInTry(t) == IF wrap[t].func = "return" THEN 1 ELSE 0

\* the except clause: the error event
except_log(t, maxEv) ==
    /\ wrap[t].pc = "except"
    /\ thr[t].n = wrap[t].n0 + LoggedInTry(t)
    /\ WrapLog(t, ErrorTag(wrap[t]), maxEv)

\* raise: the caught exception goes on to the caller, unless the error log
\* call raised itself, and then that exception does
wrapper_raise(t) ==
    /\ wrap[t].pc = "except"
    /\ thr[t].pc = "idle"
    /\ thr[t].n = wrap[t].n0 + LoggedInTry(t) + 1
    /\ LeaveWrapper(t, IF LogRaised(t) THEN "OSError" ELSE wrap[t].pending)
    /\ UNCHANGED <<today, clock, files, hnd, lock, loggers, thr, events,
                   console, cfglog, deleted, rotated, opened, cleaned,
                   written, bound, faults, _global_logger, instances,
                   getting, got, run, scope, assigned>>

\* Decorator scenario: one setup_logging call, then one thread calling
\* decorated functions that return or raise, across a midnight at which
\* the close of the old day's file may fail.

WrapConfigs ==
    {LoggingConfig("A", {"interactions", "agents"}, AllInfo, MaxRetention)}

NextWrap ==
    \/ \E cfg \in WrapConfigs : setup_logging(cfg, 1)
    \/ (Len(cfglog) = 1 /\ wrapper(1, "logged_interaction", "", WrapMaxCalls))
    \/ (Len(cfglog) = 1 /\ wrapper(1, "logged_agent_activity", "plan",
                                   WrapMaxCalls))
    \/ \E outcome \in Outcomes : func_ends(1, outcome)
    \/ try_log(1, WrapMaxEvents)
    \/ wrapper_return(1)
    \/ try_log_raised(1)
    \/ except_log(1, WrapMaxEvents)
    \/ wrapper_raise(1)
    \/ EmitCheck(1)
    \/ EmitRotate(1)
    \/ EmitWrite(1)
    \/ EmitRotateCloseFails(1)
    \/ (Len(cfglog) = 1 /\ AdvanceDay(WrapMaxDay))

SpecWrap == InitEmpty /\ [][NextWrap]_vars

----------------------------------------------------------------------------
\* Vocabulary of the properties.

nsetup == Len(cfglog)

\* the configuration of the most recent setup_logging call
lastcfg == cfglog[Len(cfglog)]

\* the channels enabled by at least one setup_logging call
everOn == UNION {cfglog[i].enabled : i \in DOMAIN cfglog}

FileHandlers == {h \in DOMAIN hnd : hnd[h].kind = "file"}

\* the sinks writing to directory dir
SinksOf(dir) == {h \in FileHandlers : hnd[h].dir = dir}

NumFiles(dir) == Cardinality(DOMAIN files[dir])

AllIdle == \A t \in Threads : thr[t].pc = "idle"

\* the writes handler h has made: <<event, dated file, day read by emit>>
WritePairs == UNION {{<<e, i>> : i \in DOMAIN written[e]} : e \in DOMAIN written}

WritesBy(h) ==
    {<<p[1], written[p[1]][p[2]].day, written[p[1]][p[2]].tday>> :
        p \in {q \in WritePairs : written[q[1]][q[2]].h = h}}

\* the days on which handler h appended at least one record
AppendDays(h) == {w[3] : w \in WritesBy(h)}

\* the events whose text is in the dated file day of directory dir, in order
RECURSIVE EventsOfLines(_)
EventsOfLines(lns) ==
    IF lns = <<>> THEN <<>>
    ELSE IF Head(lns).part = 1 THEN <<Head(lns).ev>> \o EventsOfLines(Tail(lns))
    ELSE EventsOfLines(Tail(lns))

\* the directory held no dated file when the process started
StartedEmpty(dir) ==
    /\ \A d \in DOMAIN files[dir] : d >= 1
    /\ \A x \in deleted : x[1] = dir => x[2] >= 1

----------------------------------------------------------------------------
\* C1: with retention count N >= 1 and a directory that starts empty, once
\* a record has been appended on each of N+5 distinct days, exactly N dated
\* files remain and they are the N most recently written ones.
C1_ExactlyNRemain ==
    \A h \in SinksOf(PreDir) :
        LET N == hnd[h].max_files IN
        (/\ N >= 1
         /\ StartedEmpty(PreDir)
         /\ AllIdle
         /\ Cardinality(AppendDays(h)) >= N + 5)
        => /\ NumFiles(PreDir) = N
           /\ \A d \in DOMAIN files[PreDir] : d > today - N

\* C2: whenever no append is under way on a sink with retention count
\* N >= 1, its directory holds at most N dated files.
C2_AtMostN ==
    \A h \in FileHandlers :
        (hnd[h].max_files >= 1 /\ lock[h] = 0 /\ AllIdle)
        => NumFiles(hnd[h].dir) <= hnd[h].max_files

\* C3: a retention count of 0 or below disables retention: no file is ever
\* deleted, at construction or at an append.
C3_NoDeletionWhenDisabled ==
    \A h \in FileHandlers :
        hnd[h].max_files <= 0 => \A x \in deleted : x[1] # hnd[h].dir

\* C4: a record appended on day D followed by a record appended on day D+1
\* through the same sink leaves two dated files, the one of D holding
\* exactly the first record and the one of D+1 exactly the second.
C4_BoundaryKeepsBoth ==
    \A h \in SinksOf(PreDir) : \A e \in DOMAIN events :
        (/\ AllIdle
         /\ e + 1 = Len(events)
         /\ Len(written[e]) = 1 /\ Len(written[e + 1]) = 1
         /\ written[e][1].h = h /\ written[e + 1][1].h = h
         /\ written[e + 1][1].tday = written[e][1].tday + 1
         /\ \A w \in WritesBy(h) : w[3] = written[e][1].tday => w[1] = e)
        => LET D == written[e][1].tday IN
           /\ D \in DOMAIN files[PreDir]
           /\ D + 1 \in DOMAIN files[PreDir]
           /\ EventsOfLines(files[PreDir][D].lines) = <<e>>
           /\ EventsOfLines(files[PreDir][D + 1].lines) = <<e + 1>>

\* the events logged so far through operation op
EventsOn(op) == {e \in DOMAIN events : events[e].op = op}

\* C5: per sink, each day transition is rotated exactly once, whatever the
\* number of threads appending: the new day's file is opened once, cleanup
\* runs once, and every write goes to the file of the day the sink last
\* rotated to, which is the day the writing thread read.
C5_OneRotationPerDay ==
    /\ \A h \in FileHandlers :
          /\ StrictlyIncreasing(rotated[h])
          /\ StrictlyIncreasing(opened[h])
          /\ StrictlyIncreasing(cleaned[h])
    /\ \A p \in WritePairs :
          LET w == written[p[1]][p[2]] IN
          /\ w.day = w.tday
          /\ w.day = IF w.nrot = 0 THEN opened[w.h][1] ELSE rotated[w.h][w.nrot]

\* two threads have appended to the same sink, one of them rotating it
C5_Witness ==
    \E h \in FileHandlers : \E e1, e2 \in DOMAIN events :
        /\ events[e1].by # events[e2].by
        /\ rotated[h] # <<>>
        /\ \E i \in DOMAIN written[e1] : written[e1][i].h = h /\ written[e1][i].nrot = 1
        /\ \E i \in DOMAIN written[e2] : written[e2][i].h = h /\ written[e2][i].nrot = 1

\* C6: when T threads have each logged R records to one channel within one
\* day, the channel's file of that day holds exactly T*R lines, each a
\* complete record, one per logged event.
C6_ExactlyTRLines ==
    \A op \in {"interactions", "agents"} : \A D \in 1..ThrMaxDay :
        (/\ AllIdle
         /\ Cardinality(EventsOn(op)) = NumThreads * PerThread
         /\ \A t \in Threads :
               Cardinality({e \in EventsOn(op) : events[e].by = t}) = PerThread
         /\ \A e \in EventsOn(op) :
               Len(written[e]) = 1 /\ written[e][1].tday = D)
        => /\ D \in DOMAIN files[<<"A", op>>]
           /\ Len(files[<<"A", op>>][D].lines) = NumThreads * PerThread
           /\ \A i \in DOMAIN files[<<"A", op>>][D].lines :
                 files[<<"A", op>>][D].lines[i].of = 1
           /\ \A e \in EventsOn(op) :
                 Cardinality({i \in DOMAIN files[<<"A", op>>][D].lines :
                                 files[<<"A", op>>][D].lines[i].ev = e}) = 1

----------------------------------------------------------------------------
\* Vocabulary of the claims on routing.

\* the caller of the logging operation that built event e has returned
Returned(e) ==
    thr[events[e].by].pc = "idle" \/ thr[events[e].by].ev # e

\* the configuration in effect when event e was logged
CfgOf(e) == cfglog[events[e].epoch]

\* event e was logged on a channel its configuration enables
OnEnabled(e) == events[e].epoch >= 1 /\ events[e].op \in CfgOf(e).enabled

\* the channel's logger did not reject event e for its level: the
\* operations that use Logger.handle never ask, the others compare with the
\* level the setup gave the logger
PassedLevel(e) ==
    \/ events[e].op \in {"interactions", "agents", "tools"}
    \/ events[e].level >= LoggerLevelOf(CfgOf(e), events[e].op)

\* the writes made for event e by the sinks of its own channel
OwnWrites(e) ==
    {i \in DOMAIN written[e] :
        hnd[written[e][i].h].dir = <<CfgOf(e).log_dir, events[e].op>>}

\* the number of records of event e in the dated file day of directory dir
Copies(dir, day, e) ==
    IF day \in DOMAIN files[dir]
    THEN Cardinality({i \in DOMAIN files[dir][day].lines :
            files[dir][day].lines[i].ev = e /\ files[dir][day].lines[i].part = 1})
    ELSE 0

\* the write w is visible: the dated name still refers to the file the
\* handler holds open
Visible(w) ==
    /\ w.day \in DOMAIN files[hnd[w.h].dir]
    /\ hnd[w.h].base = w.day
    /\ hnd[w.h].stream = files[hnd[w.h].dir][w.day].ino

\* once the call for an event has returned, nothing more is written for it
NoLateWrite ==
    \A e \in DOMAIN events : Returned(e) => written'[e] = written[e]

C7_State ==
    \A e \in DOMAIN events :
        (OnEnabled(e) /\ Returned(e) /\ PassedLevel(e))
        => /\ OwnWrites(e) # {}
           /\ \A i \in OwnWrites(e) :
                 /\ written[e][i].day = written[e][i].tday
                 /\ Visible(written[e][i])
                    => Copies(hnd[written[e][i].h].dir, written[e][i].day, e) >= 1

C8_DisabledWritesNothing ==
    /\ \A c \in EventChannels : \A ld \in LogDirs :
          (nsetup >= 1 /\ c \notin everOn)
          => /\ files[<<ld, c>>] = EmptyDir
             /\ \A p \in WritePairs : hnd[written[p[1]][p[2]].h].dir # <<ld, c>>
    /\ \A e \in DOMAIN events :
          (/\ OnEnabled(e) /\ Returned(e) /\ PassedLevel(e)
           /\ CfgOf(e).enabled # EventChannels)
          => \E i \in OwnWrites(e) :
                Visible(written[e][i])
                => Copies(hnd[written[e][i].h].dir, written[e][i].day, e) = 1

\* a record was logged on the disabled channel and another one on an
\* enabled channel, which is in its file
C8_Witness ==
    \E e1, e2 \in DOMAIN events :
        /\ nsetup >= 1 /\ events[e1].epoch = 1 /\ events[e2].epoch = 1
        /\ events[e1].op \notin everOn /\ Returned(e1)
        /\ OnEnabled(e2) /\ Returned(e2)
        /\ \E i \in OwnWrites(e2) :
              Copies(hnd[written[e2][i].h].dir, written[e2][i].day, e2) = 1

\* C9: a logging operation routed to a disabled channel is a complete
\* no-op: the record reaches no file and no output of any channel, and the
\* operations that generate an event_id still return it.
C9_DisabledIsNoOp ==
    \A e \in DOMAIN events :
        (events[e].epoch >= 1 /\ events[e].op \notin everOn /\ Returned(e))
        => /\ written[e] = <<>>
           /\ e \notin Range(console)
           /\ events[e].op \in {"interactions", "agents", "workflows", "tools"}
              => events[e].ret = e

\* C10: after setup_logging has been called one or more times with the same
\* configuration, every enabled channel has exactly one sink, and each
\* record logged afterwards is written exactly once, to its own channel's
\* file and to no other.
C10_SetupIdempotent ==
    (nsetup >= 1 /\ \A i \in DOMAIN cfglog : cfglog[i] = cfglog[1])
    => /\ \A c \in lastcfg.enabled : Len(loggers[c].handlers) = 1
       /\ \A e \in DOMAIN events :
             (events[e].epoch = nsetup /\ OnEnabled(e) /\ Returned(e))
             => /\ Len(written[e]) = 1
                /\ OwnWrites(e) = {1}
                /\ Copies(<<lastcfg.log_dir, events[e].op>>, written[e][1].day, e) = 1

----------------------------------------------------------------------------
\* Vocabulary of the claims on failures.

\* a failure of the given kind hit the append of event e
HasFault(kind, e) == \E f \in faults : f.kind = kind /\ f.ev = e

EmitFaultKinds == {"close", "open", "encode", "write", "cleanup"}

\* some failure hit the append of event e
Hit(e) == \E k \in EmitFaultKinds : HasFault(k, e)

\* the logging operation that built event e ended with an exception
Raised(e) == HasFault("raised", e)

\* the n-th setup_logging call ended with an exception
SetupRaised(n) == \E f \in faults : f.kind = "setup_raised" /\ f.ev = n

\* the setup_logging call in effect for event e constructed every sink
SetupOk(e) == events[e].epoch >= 1 /\ ~SetupRaised(events[e].epoch)

\* channel c has a sink of its own: its logger has a handler writing under
\* the channel's directory
Initialized(ld, c) ==
    \E i \in DOMAIN loggers[c].handlers :
        hnd[loggers[c].handlers[i]].dir = <<ld, c>>

\* C11: when the initialization of one channel fails during setup, every
\* other enabled channel is initialized all the same; only the failed
\* channel is left without a sink.
C11_OthersInitialized ==
    \A f \in faults :
        f.kind = "setup"
        => \A c \in cfglog[f.ev].enabled \ {f.ch} :
              Initialized(cfglog[f.ev].log_dir, c)

\* what the caller of the logging operation that built event e gets once
\* the operation is over: the exception, or the value of the operation's
\* return statement (the event_id, or nothing for the two operations
\* without one)
ResultOf(e) ==
    IF Raised(e) THEN "exception"
    ELSE IF events[e].ret # 0 THEN "event_id" ELSE "None"

\* event e was handed to a sink of its own channel and went through without
\* any failure
WentThrough(e) == ~Hit(e) /\ OwnWrites(e) # {}

\* C12: when the write of a record fails, the caller of the logging
\* operation can tell: the operation does not raise, and what it returns
\* differs from what the same operation returns for a record that was
\* written.
C12_WriteFailureReported ==
    \A e1 \in DOMAIN events :
        (HasFault("write", e1) /\ Returned(e1))
        => /\ ~Raised(e1)
           /\ \A e2 \in DOMAIN events :
                 (/\ events[e2].op = events[e1].op
                  /\ SetupOk(e2) /\ OnEnabled(e2) /\ Returned(e2)
                  /\ WentThrough(e2))
                 => ResultOf(e1) # ResultOf(e2)

\* C13: no logging operation ever ends with an exception because of a
\* logging failure.
C13_NeverRaises == \A e \in DOMAIN events : ~Raised(e)

\* C14: when the close of the previous day's file fails during a rotation,
\* the same append still rotates: the record is written by that sink to the
\* file of the day the append read, after a rotation.
C14_RotatesDespiteCloseFailure ==
    \A f \in faults :
        f.kind = "close"
        => \E i \in DOMAIN written[f.ev] :
              /\ written[f.ev][i].h = f.h
              /\ written[f.ev][i].nrot >= 1
              /\ written[f.ev][i].day = written[f.ev][i].tday

\* the only failure that hit the append of event e is one of cleanup
OnlyCleanupFailed(e) ==
    /\ HasFault("cleanup", e)
    /\ \A k \in EmitFaultKinds \ {"cleanup"} : ~HasFault(k, e)

\* C15: a failure met by the retention cleanup is never propagated, neither
\* to the caller of the append nor to the caller of the sink's construction,
\* and the record being appended is still written to the file of the
\* current day.
C15_CleanupFailureSwallowed ==
    /\ \A f \in faults :
          (f.kind = "cleanup" /\ OnlyCleanupFailed(f.ev))
          => /\ ~Raised(f.ev)
             /\ Returned(f.ev)
                => \E i \in DOMAIN written[f.ev] :
                      LET w == written[f.ev][i] IN
                      /\ w.h = f.h
                      /\ w.day = w.tday
                      /\ w.day = hnd[f.h].current_date
                            => Copies(hnd[f.h].dir, w.day, f.ev) = 1
    /\ \A f \in faults :
          (f.kind = "ctor_cleanup"
             /\ ~\E g \in faults : g.kind = "setup" /\ g.ev = f.ev)
          => ~SetupRaised(f.ev)

\* a cleanup failed to remove a file that was due, and the record of the
\* append that ran it is in the new day's file all the same
C15_Witness ==
    \E f \in faults :
        /\ f.kind = "cleanup" /\ OnlyCleanupFailed(f.ev) /\ Returned(f.ev)
        /\ NumFiles(hnd[f.h].dir) > hnd[f.h].max_files + 1
        /\ \E i \in DOMAIN written[f.ev] :
              /\ written[f.ev][i].h = f.h
              /\ Copies(hnd[f.h].dir, written[f.ev][i].day, f.ev) = 1

\* C16: a record holding a value that cannot be serialized is still
\* emitted to its channel's file, a placeholder standing for the value.
C16_UnserializableStillEmitted ==
    \A e \in DOMAIN events :
        (/\ HasFault("encode", e)
         /\ ~Raised(e) /\ Returned(e)
         /\ SetupOk(e) /\ OnEnabled(e))
        => OwnWrites(e) # {}

\* C17: a failure that hits one record leaves the others alone: every
\* record whose own append met no failure, on the same channel or on
\* another, before or after the failure, is written once, by the sink of
\* its channel, to the file of the day its append read.
C17_FailuresStayLocal ==
    \A e \in DOMAIN events :
        (SetupOk(e) /\ OnEnabled(e) /\ Returned(e) /\ ~Hit(e))
        => /\ Len(written[e]) = 1
           /\ OwnWrites(e) = {1}
           /\ written[e][1].day = written[e][1].tday
           /\ written[e][1].day \in DOMAIN files[hnd[written[e][1].h].dir]
                 => Copies(hnd[written[e][1].h].dir, written[e][1].day, e) = 1

\* a record was hit by a failure and a later record of the same channel is
\* in its file, once
C17_Witness ==
    \E e1, e2 \in DOMAIN events :
        /\ e1 < e2 /\ events[e1].op = events[e2].op
        /\ Hit(e1)
        /\ SetupOk(e2) /\ OnEnabled(e2) /\ Returned(e2) /\ ~Hit(e2)
        /\ Len(written[e2]) = 1
        /\ Copies(hnd[written[e2][1].h].dir, written[e2][1].day, e2) = 1

----------------------------------------------------------------------------
\* Vocabulary of the claims on the content of the files.

\* every line of every dated file
AllLines ==
    UNION {UNION {Range(files[d][day].lines) : day \in DOMAIN files[d]} : d \in Dirs}

\* a line that parses on its own as one document: the whole of a record
ParsesAlone(ln) == ln.of = 1

\* C18: every record written to a channel file, the interactions channel
\* included, occupies exactly one line, and every line of a channel file
\* parses on its own as one self-contained document.
C18_OneLinePerRecord == \A ln \in AllLines : ParsesAlone(ln)

\* the session_id stamped on event e: that of the logger of the thread
\* that logged it
SessionOf(e) == bound[events[e].by]

\* the lines of a file that parse on their own and carry session_id S
EntriesOf(lns, S) ==
    {i \in DOMAIN lns : ParsesAlone(lns[i]) /\ SessionOf(lns[i].ev) = S}

\* C19: for every session S and channel, parsing the lines of the channel's
\* file of a day and keeping the entries whose session_id is S gives
\* exactly the events logged that day through a logger bound to S, each
\* once, and none of another session.
C19_SessionFilterExact ==
    \A S \in Sessions \cup {GlobalSession} : \A c \in EventChannels :
      \A D \in DOMAIN files[<<"A", c>>] :
        LET lns == files[<<"A", c>>][D].lines IN
        /\ \A e \in EventsOn(c) :
              (/\ SessionOf(e) = S /\ Returned(e)
               /\ \E i \in DOMAIN written[e] : written[e][i].day = D)
              => Cardinality({i \in EntriesOf(lns, S) : lns[i].ev = e}) = 1
        /\ \A i \in EntriesOf(lns, S) :
              /\ events[lns[i].ev].op = c
              /\ SessionOf(lns[i].ev) = S

\* C20: in every channel file the records of one session are in
\* non-decreasing order of their timestamps, for any interleaving of the
\* threads logging under that session.
C20_SessionOrderedByTimestamp ==
    \A d \in Dirs : \A D \in DOMAIN files[d] :
        LET lns == files[d][D].lines IN
        \A i, j \in DOMAIN lns :
            (/\ i < j
             /\ lns[i].part = 1 /\ lns[j].part = 1
             /\ SessionOf(lns[i].ev) = SessionOf(lns[j].ev))
            => events[lns[i].ev].ts <= events[lns[j].ev].ts

----------------------------------------------------------------------------
\* C21: Every event logged on behalf of a workflow run that was started
\* with session id S is recorded with session_id S, also when it is logged
\* through a module-level function that is given no session id, and
\* whatever other runs with other session ids interleave with it.
\* Refuted: the module-level functions log with whatever logger the module
\* variable holds, and the last run that started has replaced it.
C21_RunEventsCarryRunSession ==
    \A e \in DOMAIN events :
        run[events[e].by].session_id # 0
            => events[e].session_id = run[events[e].by].session_id

----------------------------------------------------------------------------
\* C22: For every non-empty session id s, get_interaction_logger(s)
\* returns a logger whose session_id is s, whatever calls interleave with
\* it; two calls with the same s and no call for another session between
\* them return the same instance; a call with a different session id
\* returns a different instance.
\* Refuted: the function stores the new logger in the module variable and
\* then reads the variable again to return it, with no lock; a call of
\* another thread in between makes it return that thread's logger.
C22_LoggerOfRequestedSession ==
    /\ \A i \in DOMAIN got :
           got[i].session_id # 0 => instances[got[i].ret] = got[i].session_id
    /\ \A i \in DOMAIN got : \A j \in DOMAIN got :
           j = i + 1 /\ got[i].session_id # 0 /\ got[j].session_id # 0
               => (got[i].ret = got[j].ret
                      <=> got[i].session_id = got[j].session_id)

----------------------------------------------------------------------------
\* C23: each of the six logging operations generates a fresh event id,
\* different from every id generated before, stores it in the record and
\* returns it.
\* Refuted: log_performance_metric and log_security_event generate no id
\* and return None.
C23_FreshIdReturned ==
    \A e \in DOMAIN events :
        Returned(e) =>
            /\ events[e].ret # 0
            /\ \A e2 \in DOMAIN events : e2 # e => events[e2].ret # events[e].ret

----------------------------------------------------------------------------
\* C24: the severity of a record is a function of the record alone: ERROR
\* exactly when it is a workflow event of status "error" or a tool usage
\* with success false, INFO for every interaction, agent activity and
\* performance record and for every other workflow event and tool usage.
C24_SeverityFromRecord ==
    \A e \in DOMAIN events :
        LET E == events[e] IN
        /\ E.op = "workflows" =>
               E.level = IF E.args.tag = "error" THEN ERROR ELSE INFO
        /\ E.op = "tools" =>
               E.level = IF E.args.tag = "failure" THEN ERROR ELSE INFO
        /\ E.op \in {"interactions", "agents", "performance"} => E.level = INFO

\* a failing workflow event and a failing tool usage have been logged
C24_Witness ==
    \E e1, e2 \in DOMAIN events :
        /\ events[e1].op = "workflows" /\ events[e1].args.tag = "error"
        /\ events[e2].op = "tools" /\ events[e2].args.tag = "failure"
        /\ Returned(e1) /\ Returned(e2)

----------------------------------------------------------------------------
\* C25: for every channel with configured minimum level L, a record whose
\* severity is below L is not written and a record at or above L is
\* written, for all channels alike.
\* Refuted: the interactions, agents and tools operations hand their
\* record to Logger.handle, which does not consult the logger's level.
C25_LevelFilterAllChannels ==
    \A e \in DOMAIN events :
        (OnEnabled(e) /\ Returned(e)) =>
            LET L == LoggerLevelOf(CfgOf(e), events[e].op) IN
            /\ events[e].level < L => OwnWrites(e) = {}
            /\ events[e].level >= L => OwnWrites(e) # {}

----------------------------------------------------------------------------
\* C26: for every use of the timing scope, exactly one performance event
\* bearing the operation name and the elapsed time is emitted when the
\* scope is left, on the normal exit and on the raising exit alike, and on
\* the raising exit the body's exception still reaches the caller.

\* the events thread t logged as its (lo+1)-th to hi-th
LoggedBetween(t, lo, hi) ==
    {e \in DOMAIN events :
        /\ events[e].by = t
        /\ LET k == Cardinality({e2 \in 1..e : events[e2].by = t})
           IN  lo < k /\ k <= hi}

----------------------------------------------------------------------------
\* C27: rotation is lazy: a change of the wall-clock day without an append
\* leaves the sink's current_date, its open file and the files on disk as
\* they were, and the very first append after the day has changed rotates
\* to the new day's file before it writes.

\* a thread about to write has the sink on the day it read, and every
\* write went to the file of the day its append read
C27_State ==
    /\ \A t \in Threads :
          (thr[t].pc = "write" /\ hnd[Head(thr[t].q)].kind = "file") =>
              /\ hnd[Head(thr[t].q)].current_date = thr[t].tday
              /\ hnd[Head(thr[t].q)].base = thr[t].tday
    /\ \A p \in WritePairs : written[p[1]][p[2]].day = written[p[1]][p[2]].tday

\* the day changes and nothing else does
C27_Frame == today' # today => UNCHANGED <<hnd, files, rotated, opened, cleaned>>

C27_LazyRotation == [](C27_State) /\ [][C27_Frame]_vars

\* a sink rotated at the first append of day 2 and wrote; day 3 has begun
\* and, no append having been made, the sink is still on day 2
C27_Witness ==
    \E h \in FileHandlers :
        /\ today = 3
        /\ rotated[h] = <<2>>
        /\ hnd[h].current_date = 2
        /\ 3 \notin DOMAIN files[hnd[h].dir]
        /\ \E p \in WritePairs :
              LET w == written[p[1]][p[2]] IN
              w.h = h /\ w.tday = 2 /\ w.day = 2 /\ w.nrot = 1

----------------------------------------------------------------------------
\* C28: every file a channel creates or writes to is the dated file
\* {log_dir}/{channel}/{channel}_{date}.log whose date is the wall-clock day
\* at the sink's construction or at the append that wrote to it; there is
\* at most one file per channel and day; content that exists is only
\* appended to, never truncated or rewritten.

\* the files a sink opened are of the day of its construction and of the
\* days its appends read, one for each; every file created is such a file
C28_State ==
    /\ \A h \in FileHandlers :
          /\ opened[h] # <<>>
          /\ opened[h][1] = 1
          /\ StrictlyIncreasing(opened[h])
          /\ \A i \in DOMAIN opened[h] :
                i > 1 => \E w \in WritesBy(h) : w[2] = opened[h][i] /\ w[3] = w[2]
    /\ \A p \in WritePairs :
          LET w == written[p[1]][p[2]] IN
          /\ w.day = w.tday
          /\ hnd[w.h].dir = <<CfgOf(p[1]).log_dir, events[p[1]].op>>
    /\ \A dir \in Dirs : \A d \in DOMAIN files[dir] :
          d >= 1 /\ files[dir][d].ino >= 1
              => \E h \in SinksOf(dir) : d \in Range(opened[h])

\* a file that stays keeps its content as a prefix of its new content
C28_AppendOnly ==
    \A dir \in Dirs : \A d \in DOMAIN files[dir] \cap DOMAIN files'[dir] :
        /\ files'[dir][d].ino = files[dir][d].ino
        /\ Len(files'[dir][d].lines) >= Len(files[dir][d].lines)
        /\ SubSeq(files'[dir][d].lines, 1, Len(files[dir][d].lines))
              = files[dir][d].lines

C28_DatedFilesAppendOnly == [](C28_State) /\ [][C28_AppendOnly]_vars

\* the sink was constructed on a file an earlier run had written today,
\* appended to it, and appended to the file of the next day after rotating
C28_Witness ==
    \E h \in SinksOf(PreDir) :
        /\ opened[h] = <<1, 2>>
        /\ 1 \in DOMAIN files[PreDir]
        /\ Len(files[PreDir][1].lines) > 1
        /\ files[PreDir][1].lines[1].ev = 0
        /\ 2 \in DOMAIN files[PreDir]
        /\ files[PreDir][2].lines # <<>>

----------------------------------------------------------------------------
\* C29: when a sink's current_date is set to a date D that differs from
\* the wall-clock day and one record is then emitted, a file
\* {stem}_{D}{suffix} exists after the emit.
\* Refuted: emit finds current_date different from the wall-clock day and
\* rotates to the file of the wall-clock day; no file of D is created.
C29_FileOfAssignedDate ==
    \A a \in assigned :
        (/\ a.date # a.day
         /\ \E e \in DOMAIN events :
               /\ e > a.after
               /\ Returned(e)
               /\ \E i \in DOMAIN written[e] : written[e][i].h = a.h)
        => a.date \in DOMAIN files[hnd[a.h].dir]

----------------------------------------------------------------------------
\* C30: log_agent_activity records total_tokens equal to prompt_tokens +
\* completion_tokens whenever both counts are given, a count of 0
\* included, and records no total when at least one of them is not given.
\* Refuted: the code tests the counts for truth, so a count of 0 is taken
\* as not given.
C30_TotalTokens ==
    \A e \in EventsOn("agents") :
        LET a == events[e].args IN
        a.total_tokens =
            IF a.prompt_tokens # None /\ a.completion_tokens # None
            THEN a.prompt_tokens + a.completion_tokens
            ELSE None

----------------------------------------------------------------------------
\* Vocabulary of the claims on encoding.

\* the records in the files: <<directory, day, line>> of each first line
RecordsInFiles ==
    {x \in UNION {UNION {{<<dir, d, i>> : i \in DOMAIN files[dir][d].lines} :
                             d \in DOMAIN files[dir]} : dir \in Dirs} :
        files[x[1]][x[2]].lines[x[3]].part = 1 /\ files[x[1]][x[2]].lines[x[3]].ev > 0}

EventAt(x) == files[x[1]][x[2]].lines[x[3]].ev

\* what the sink of directory dir wrote for event e
OutputIn(dir, e) ==
    Encoded(IF dir[2] = "system" THEN "StructuredFormatter" ELSE FormatterOf(dir[2]), e)

----------------------------------------------------------------------------
\* C31: in the output of the generic structured encoder every
\* caller-attached extension field appears under its own name with its
\* value, and the fixed fields timestamp, level, logger and message always
\* carry the record's own values: an extension field whose name collides
\* with a fixed or reserved name never replaces that field.
\* Refuted: the custom fields are copied after the fixed ones, and the set
\* of names that are not copied does not hold the fixed output keys.
C31_FixedFieldsKept ==
    \A x \in RecordsInFiles :
        x[1][2] = "system" =>
            LET E   == events[EventAt(x)]
                out == OutputIn(x[1], EventAt(x))
            IN
            /\ \A k \in DOMAIN E.args.extra \ {"timestamp", "level", "logger", "message"} :
                  k \in DOMAIN out /\ out[k] = E.args.extra[k]
            /\ out["timestamp"] = <<"created", E.ts>>
            /\ out["level"] = <<"levelname", E.level>>
            /\ out["logger"] = <<E.op, 0>>
            /\ out["message"] = <<"msg", 0>>

----------------------------------------------------------------------------
\* C32: the interaction encoder's output always has timestamp, session_id,
\* interaction_type, user_id ("anonymous" when the record has none) and
\* message, and has the keys duration_ms, agent and tool exactly when the
\* record has a value for the field; an interaction logged without
\* duration and without agent name has neither key.
\* Refuted: log_interaction assigns record.duration and record.agent_name
\* even when they are None, and the encoder tests hasattr.
C32_InteractionKeys ==
    \A x \in RecordsInFiles :
        x[1][2] = "interactions" =>
            LET E   == events[EventAt(x)]
                out == OutputIn(x[1], EventAt(x))
            IN
            /\ {"timestamp", "session_id", "interaction_type", "user_id",
                "message"} \subseteq DOMAIN out
            /\ out["user_id"] = <<"anonymous", 0>>
            /\ "duration_ms" \in DOMAIN out <=> E.args.duration_ms # None
            /\ "agent" \in DOMAIN out <=> E.args.agent_name # None
            /\ "tool" \notin DOMAIN out

----------------------------------------------------------------------------
\* C33: every logging operation invoked by any thread eventually returns:
\* under fair scheduling no interleaving of concurrent appends, rotations
\* (which close and reopen the file while the sink's lock is held) and
\* closes, on the same sink or on different sinks, leaves a thread blocked
\* forever.
C33_EveryCallReturns ==
    \A t \in Threads : (thr[t].pc # "idle") ~> (thr[t].pc = "idle")

\* one thread is rotating a sink, closing its file under the sink's lock,
\* while another thread waits for that lock
C33_Witness ==
    \E t1, t2 \in Threads :
        /\ t1 # t2
        /\ thr[t1].pc = "rotate"
        /\ thr[t2].pc = "handle"
        /\ Head(thr[t2].q) = Head(thr[t1].q)
        /\ lock[Head(thr[t1].q)] = t1

----------------------------------------------------------------------------
\* C34: only the configuration of the most recent setup_logging call is in
\* effect: after setup_logging(c1) and then setup_logging(c2), records are
\* written only under c2.log_dir, nothing more is written under
\* c1.log_dir, and a channel that c2 disables writes nothing even if c1
\* had enabled it.
\* Refuted: a channel's logger keeps the sinks that earlier calls gave it.
C34_LastSetupOnly ==
    \A e \in DOMAIN events :
        events[e].epoch >= 1 =>
            \A i \in DOMAIN written[e] :
                LET dir == hnd[written[e][i].h].dir IN
                /\ dir[1] = CfgOf(e).log_dir
                /\ dir[2] = events[e].op => events[e].op \in CfgOf(e).enabled

----------------------------------------------------------------------------
\* C35: retention cleanup, at sink construction or at rotation, never
\* deletes the dated file the sink has open (or is about to open) for the
\* current day, whatever the modification times of the files in the
\* directory and whatever the retention count; hence no appended record is
\* lost to cleanup.
\* Refuted: cleanup deletes the files with the oldest modification times,
\* and the file of the current day is among them when an older-dated file
\* was modified after it.
C35_OpenFileKept ==
    /\ \A h \in FileHandlers :
          (lock[h] = 0 /\ hnd[h].stream # 0) =>
              /\ hnd[h].base \in DOMAIN files[hnd[h].dir]
              /\ files[hnd[h].dir][hnd[h].base].ino = hnd[h].stream
    /\ \A p \in WritePairs :
          LET w == written[p[1]][p[2]] IN
          hnd[w.h].base = w.day => Copies(hnd[w.h].dir, w.day, p[1]) >= 1

----------------------------------------------------------------------------
\* C36: every event record is stored in the dated file whose date is the
\* calendar date of the record's own timestamp, also when the record is
\* built just before midnight and appended just after it.
\* Refuted: the timestamp is taken when the record is built, the file is
\* chosen by the day emit reads.
C36_FileOfTimestampDate ==
    \A p \in WritePairs :
        written[p[1]][p[2]].day = events[p[1]].day

----------------------------------------------------------------------------
\* C37: each call of a function wrapped by logged_interaction (respectively
\* logged_agent_activity) logs exactly one event, a function_call
\* interaction (respectively the given activity type) when the function
\* returns and a function_error interaction (respectively the activity type
\* suffixed _error) when it raises, and the function's return value or
\* exception reaches the caller unchanged.
\* Refuted: an exception outside the Exception hierarchy logs nothing, and
\* a success log call that raises is caught by the wrapper's own except
\* clause.
C37_OneEventPerCall ==
    \A t \in Threads : \A i \in DOMAIN wrap[t].left :
        LET d      == wrap[t].left[i]
            logged == LoggedBetween(t, d.n0, d.n1)
        IN
        /\ Cardinality(logged) = 1
        /\ \A e \in logged :
              /\ events[e].op = WrapOp(d)
              /\ events[e].args.tag =
                    IF d.func = "return" THEN OkTag(d) ELSE ErrorTag(d)
        /\ d.reached = d.func

----------------------------------------------------------------------------
\* C38: whenever no append is in progress on a sink, including after an
\* append that failed while closing or opening a file, the path the sink
\* writes to is the dated file name derived from its base path and its
\* current_date; and after every append that returns normally, current_date
\* is the wall-clock day that append read.

\* no thread holds the sink: baseFilename names the file of current_date
C38_State ==
    \A h \in FileHandlers :
        lock[h] = 0 => hnd[h].base = hnd[h].current_date

\* emit returns without raising: the sink is on the day emit read
C38_Return ==
    \A t \in Threads :
        (/\ thr[t].pc = "write"
         /\ thr'[t].pc # "write"
         /\ hnd[Head(thr[t].q)].kind = "file"
         /\ \A f \in faults' \ faults : f.kind # "raised")
        => LET h == Head(thr[t].q) IN
           /\ hnd'[h].current_date = thr[t].tday
           /\ hnd'[h].base = thr[t].tday

C38_PathOfCurrentDate == [](C38_State) /\ [][C38_Return]_vars

\* an append failed closing the old day's file and a later append on the
\* same sink rotated and returned normally; no append is in progress
C38_Witness ==
    /\ \A h \in FileHandlers : lock[h] = 0
    /\ \E f \in faults : \E p \in WritePairs :
          LET w == written[p[1]][p[2]] IN
          /\ f.kind = "close"
          /\ w.h = f.h
          /\ p[1] > f.ev
          /\ w.tday > 1
          /\ hnd[w.h].current_date = w.tday

====
